---- MODULE Spec2Model ----
(***************************************************************************)
(* The Oppen-style pretty-printing engine of src/src/algorithm.rs          *)
(* (struct Printer), driven through its public token API.  The program     *)
(* state is the Printer's fields; every public operation is one action.    *)
(* A panic (unwrap of None, unreachable!(), failed try_from, a RingBuffer  *)
(* access out of range) is recorded in `panic` and stops the driver.       *)
(* The build is the normal one: cfg!(prettyplease_debug) is false, so the  *)
(* marker characters of print_begin, print_end and print_break are never   *)
(* written.  Strings are sequences of one-byte characters, so that         *)
(* string.len() is Len.  RingBuffer (crate::ring) is modelled by its       *)
(* contract: a queue of entries and the absolute index of its first entry. *)
(***************************************************************************)
EXTENDS Integers, Sequences, FiniteSets, TLC

VARIABLES
    out,                 \* Printer.out: the output, a sequence of characters
    space,               \* Printer.space
    buf,                 \* Printer.buf: RingBuffer<BufEntry>, [data, offset]
    left_total,          \* Printer.left_total
    right_total,         \* Printer.right_total
    scan_stack,          \* Printer.scan_stack: VecDeque<usize>, front first
    print_stack,         \* Printer.print_stack: Vec<PrintFrame>, top last
    indent,              \* Printer.indent
    pending_indentation, \* Printer.pending_indentation
    panic,               \* "none", or the panic that unwound the engine
    marks,               \* history: per open print frame, what was emitted in it
    closed,              \* history: the frames popped by print_end, with their marks
    elided,              \* history: number of Breaks removed by scan_end's peepholes
    events,              \* history: what print_break and print_begin decided
    open,                \* driver: offsets of the Begins not yet matched by an End
    last_call,           \* driver: name of the last public operation called
    calls,               \* driver: number of public operations called so far
    texts_clean,         \* driver: no scanned text was empty or ended with a space
    scanned,             \* driver: the texts passed to scan_string, concatenated
    segment,             \* driver: characters scanned since the last scan_break
    finished,            \* driver: eof has been called (the Printer is consumed)
    script               \* driver: the call sequence of a scripted driver

vars == <<out, space, buf, left_total, right_total, scan_stack, print_stack,
          indent, pending_indentation, panic, marks, closed, elided, events,
          open, last_call, calls, texts_clean, scanned, segment,
          finished, script>>

----------------------------------------------------------------------------
(* Program constants *)

SIZE_INFINITY == 65535
MARGIN == 79
MIN_SPACE == 60
INDENT == 4

(* Bounds of the model *)

MaxCalls == 6        \* public operations before eof, in Spec
MaxTextCalls == 5    \* public operations before eof, in SpecAnyText
MaxFacadeCalls == 5  \* public operations before eof, in SpecFacade
MaxMisuseCalls == 5  \* public operations before eof, in SpecMisuse
MaxWords == 3        \* words of a scripted block, in SpecScript
MaxNest == 6         \* nested generic argument lists of a script, in SpecScript
MaxArgs == 3         \* generic arguments of one argument list, in SpecScript
MaxFitCalls == 5     \* calls of the driver of short segments, in SpecFit

----------------------------------------------------------------------------
(* Tokens *)

Rep(c, n) == [i \in 1..n |-> c]

StringToken(text) == [kind |-> "String", text |-> text]
BreakToken(offset, blank_space, trailing_comma, if_nonempty) ==
    [kind |-> "Break", offset |-> offset, blank_space |-> blank_space,
     trailing_comma |-> trailing_comma, if_nonempty |-> if_nonempty]
BeginToken(offset, breaks) == [kind |-> "Begin", offset |-> offset, breaks |-> breaks]
EndToken == [kind |-> "End"]

BufEntry(token, size) == [token |-> token, size |-> size]

Fits(breaks) == [kind |-> "Fits", breaks |-> breaks]
Broken(ind, breaks) == [kind |-> "Broken", indent |-> ind, breaks |-> breaks]

(* The inputs the driver draws from *)

Texts == { <<"x">>, Rep("x", 40) }

\* Texts that are empty or end with a space, as word(": ") in path.rs.
SpacedTexts == { <<>>, <<":", " ">> }

BreakTokens == { BreakToken(0, 1, FALSE, FALSE),    \* space()
                 BreakToken(0, 0, TRUE, FALSE),     \* trailing_comma(true)
                 BreakToken(0, 1, FALSE, TRUE) }    \* a space dropped before End

BeginTokens == { BeginToken(INDENT, "Consistent"),      \* cbox(INDENT)
                 BeginToken(0, "Inconsistent") }        \* ibox(0)

Deltas == { -INDENT }

(* The helpers of the driver's facade *)

word(s) == s
space_break == BreakToken(0, 1, FALSE, FALSE)    \* space(); `space` is the field
zerobreak == BreakToken(0, 0, FALSE, FALSE)
ibox(n) == BeginToken(n, "Inconsistent")
cbox(n) == BeginToken(n, "Consistent")
trailing_comma_last == BreakToken(0, 0, TRUE, FALSE)    \* trailing_comma(true)

FacadeBegins == { cbox(INDENT), ibox(INDENT) }
FacadeBreaks == { space_break, zerobreak, trailing_comma_last }

\* Begins of a driver that may be wrong: one has a negative offset.
MisuseBegins == { cbox(INDENT), cbox(-INDENT) }
MisuseBreaks == { space_break, trailing_comma_last }

(* Scripts: call sequences a driver makes on a fresh Printer, then eof *)

Call(op, arg) == [op |-> op, arg |-> arg]

NoScript == [name |-> "none", n |-> 0, words |-> <<>>, args |-> <<>>, calls |-> <<>>]

\* word(w1), space(), word(w2), ..., space(), word(wk)
RECURSIVE Spaced(_)
Spaced(ws) ==
    IF Len(ws) = 0 THEN <<>>
    ELSE IF Len(ws) = 1 THEN <<Call("scan_string", word(ws[1]))>>
    ELSE <<Call("scan_string", word(ws[1])), Call("scan_break", space_break)>>
         \o Spaced(Tail(ws))

\* A block of words: S1 and S3 with cbox(n), S4 with ibox(n), S2 with a long word.
BlockScript(name, begin, ws) ==
    [name |-> name, n |-> begin.offset, words |-> ws, args |-> <<>>,
     calls |-> <<Call("scan_begin", begin)>> \o Spaced(ws) \o <<Call("scan_end", 0)>>]

\* path_segment with d nested angle_bracketed_generic_arguments of one argument
\* each, the innermost argument being the identifier w.
RECURSIVE NestCalls(_, _)
NestCalls(d, w) ==
    IF d = 0 THEN <<Call("scan_string", word(w))>>
    ELSE <<Call("scan_string", word(<<"x">>)), Call("scan_string", word(<<"<">>)),
           Call("scan_begin", cbox(INDENT)), Call("scan_break", zerobreak)>>
         \o NestCalls(d - 1, w)
         \o <<Call("scan_break", trailing_comma_last), Call("offset", -INDENT),
              Call("scan_end", 0), Call("scan_string", word(<<">">>))>>

NestScript(d, w) ==
    [name |-> "nest", n |-> d, words |-> <<w>>, args |-> <<>>, calls |-> NestCalls(d, w)]

(* path.rs: angle_bracketed_generic_arguments *)

\* A generic argument: its variant and the text of its lifetime, type,
\* expression or identifier. ConstExpr is a Const whose expression is neither
\* a literal nor a block.
ArgKinds == { "Lifetime", "Type", "Const", "ConstExpr", "Binding", "Constraint" }
GenericArgument(kind, text) == [kind |-> kind, text |-> text]

\* fn group: First, Second, Third as 1, 2, 3.
group(arg) ==
    CASE arg.kind = "Lifetime" -> 1
      [] arg.kind \in {"Type", "Const", "ConstExpr"} -> 2
      [] arg.kind \in {"Binding", "Constraint"} -> 3

\* trailing_comma(is_last) of the facade.
trailing_comma(is_last) ==
    IF is_last THEN <<Call("scan_break", trailing_comma_last)>>
    ELSE <<Call("scan_string", word(<<",">>)), Call("scan_break", space_break)>>

\* binding: the identifier, " = ", the type (here the one-letter type T).
binding(arg) ==
    <<Call("scan_string", word(arg.text)),
      Call("scan_string", word(<<" ", "=", " ">>)),
      Call("scan_string", word(<<"T">>))>>

\* constraint: the identifier and, in an ibox, its bounds (here B + B).
constraint(arg) ==
    <<Call("scan_string", word(arg.text)),
      Call("scan_begin", ibox(INDENT)),
      Call("scan_string", word(<<":", " ">>)),
      Call("scan_string", word(<<"B">>)),
      Call("scan_break", space_break),
      Call("scan_string", word(<<"+", " ">>)),
      Call("scan_string", word(<<"B">>)),
      Call("scan_end", 0)>>

generic_argument(arg) ==
    CASE arg.kind \in {"Lifetime", "Type", "Const"} ->
            <<Call("scan_string", word(arg.text))>>
      [] arg.kind = "ConstExpr" ->
            <<Call("scan_string", word(<<"{">>)),
              Call("scan_string", word(arg.text)),
              Call("scan_string", word(<<"}">>))>>
      [] arg.kind = "Binding" -> binding(arg)
      [] arg.kind = "Constraint" -> constraint(arg)

\* max_by_key answering the first, not the last, argument of the greatest group.
last_of_first_max(args) ==
    IF args = <<>> THEN 0
    ELSE CHOOSE i \in 1..Len(args) :
            /\ \A j \in 1..Len(args) : group(args[j]) <= group(args[i])
            /\ \A j \in 1..(i - 1) : group(args[j]) < group(args[i])

\* max_by_key over the enumerated args: the index of the last argument of the
\* greatest group, and 0 for no argument. Indices count from 1 here.
last_of(args) ==
    IF args = <<>> THEN 0
    ELSE CHOOSE i \in 1..Len(args) :
            /\ \A j \in 1..Len(args) : group(args[j]) <= group(args[i])
            /\ \A j \in (i + 1)..Len(args) : group(args[j]) < group(args[i])

\* The inner loop from argument i on: the arguments of current_group, each
\* followed by trailing_comma(i == last).
RECURSIVE group_calls(_, _, _, _)
group_calls(args, current_group, i, last) ==
    IF i > Len(args) THEN <<>>
    ELSE (IF group(args[i]) = current_group
          THEN generic_argument(args[i]) \o trailing_comma(i = last)
          ELSE <<>>)
         \o group_calls(args, current_group, i + 1, last)

\* angle_bracketed_generic_arguments with the passes in the order Second,
\* First, Third.
angle_bracketed_generic_arguments_types_first(colon2, args) ==
    IF args = <<>> THEN <<>>
    ELSE (IF colon2 THEN <<Call("scan_string", word(<<":", ":">>))>> ELSE <<>>)
         \o <<Call("scan_string", word(<<"<">>)),
              Call("scan_begin", cbox(INDENT)),
              Call("scan_break", zerobreak)>>
         \o group_calls(args, 2, 1, last_of(args))
         \o group_calls(args, 1, 1, last_of(args))
         \o group_calls(args, 3, 1, last_of(args))
         \o <<Call("offset", -INDENT), Call("scan_end", 0),
              Call("scan_string", word(<<">">>))>>

angle_bracketed_generic_arguments(colon2, args) ==
    IF args = <<>> THEN <<>>
    ELSE (IF colon2 THEN <<Call("scan_string", word(<<":", ":">>))>> ELSE <<>>)
         \o <<Call("scan_string", word(<<"<">>)),
              Call("scan_begin", cbox(INDENT)),
              Call("scan_break", zerobreak)>>
         \o group_calls(args, 1, 1, last_of(args))
         \o group_calls(args, 2, 1, last_of(args))
         \o group_calls(args, 3, 1, last_of(args))
         \o <<Call("offset", -INDENT), Call("scan_end", 0),
              Call("scan_string", word(<<">">>))>>

\* The i-th argument is named by the i-th letter, repeated len times.
ArgLetters == <<"a", "b", "c", "d", "e", "f", "g", "h">>
ArgLens == { 1, 30 }
ArgLists(len) ==
    UNION { { [i \in 1..k |-> GenericArgument(kinds[i], Rep(ArgLetters[i], len))] :
              kinds \in [1..k -> ArgKinds] } : k \in 0..MaxArgs }

GenericScript(colon2, args) ==
    [name |-> "generic", n |-> IF colon2 THEN 2 ELSE 0, words |-> <<>>,
     args |-> args, calls |-> angle_bracketed_generic_arguments(colon2, args)]

WordLens == { 0, 1, 38, 39, 40, 75, 80 }
LongLens == { MARGIN + 1, 90 }
BoxOffsets == { 0, INDENT, MARGIN - MIN_SPACE }

Words(lens, k) == [1..k -> { Rep("x", l) : l \in lens }]

----------------------------------------------------------------------------
(* RingBuffer: entries keyed by absolute index; data[1] has index offset *)

RingNew == [data |-> <<>>, offset |-> 0]
ring_len(b) == Len(b.data)
ring_is_empty(b) == b.data = <<>>
ring_index_of_first(b) == b.offset
ring_live(b, index) == index >= b.offset /\ index < b.offset + Len(b.data)
ring_get(b, index) == b.data[index - b.offset + 1]
ring_set_size(b, index, size) ==
    [b EXCEPT !.data[index - b.offset + 1].size = size]
ring_push(b, entry) == [b EXCEPT !.data = Append(@, entry)]
ring_push_index(b) == b.offset + Len(b.data)
ring_clear(b) == [b EXCEPT !.data = <<>>]
ring_pop_first(b) == [b EXCEPT !.data = Tail(@), !.offset = @ + 1]
ring_pop_last(b) == [b EXCEPT !.data = SubSeq(@, 1, Len(@) - 1)]
ring_first(b) == b.data[1]
ring_last(b) == b.data[Len(b.data)]
ring_second_last(b) == b.data[Len(b.data) - 1]

----------------------------------------------------------------------------
(* The Printer as a record, so that the operations compose *)

Max(a, b) == IF a >= b THEN a ELSE b
Last(s) == s[Len(s)]
Front(s) == SubSeq(s, 1, Len(s) - 1)

Printer == [out |-> out, space |-> space, buf |-> buf,
            left_total |-> left_total, right_total |-> right_total,
            scan_stack |-> scan_stack, print_stack |-> print_stack,
            indent |-> indent, pending_indentation |-> pending_indentation,
            panic |-> panic, marks |-> marks, closed |-> closed,
            elided |-> elided, events |-> events]

new == [out |-> <<>>, space |-> MARGIN, buf |-> RingNew,
        left_total |-> 0, right_total |-> 0,
        scan_stack |-> <<>>, print_stack |-> <<>>,
        indent |-> 0, pending_indentation |-> 0,
        panic |-> "none", marks |-> <<>>, closed |-> {}, elided |-> 0,
        events |-> {}]

Panics(p, why) == [p EXCEPT !.panic = why]

\* The logical width of an entry: what it adds to right_total when scanned and
\* to left_total when printed.
Width(entry) ==
    IF entry.token.kind = "String" THEN Len(entry.token.text)
    ELSE IF entry.token.kind = "Break" THEN entry.token.blank_space
    ELSE 0

RECURSIVE SumWidth(_)
SumWidth(data) ==
    IF data = <<>> THEN 0 ELSE Width(Head(data)) + SumWidth(Tail(data))

\* The width of the entries of b from absolute index `index` to the back.
SpanWidth(b, index) ==
    SumWidth(SubSeq(b.data, index - b.offset + 1, Len(b.data)))

\* What is remembered of a frame: the size and space print_begin compared, the
\* number of Breaks directly inside it printed as newlines (brk_nl) and as
\* whitespace (brk_sp), and the newlines written while it was open (any_nl).
Mark(size, sp, off, ind) ==
    [size |-> size, space |-> sp, offset |-> off, indent |-> ind,
     brk_nl |-> 0, brk_sp |-> 0, any_nl |-> 0]

\* A Break was printed as whitespace directly inside the top frame.
MarkSpace(p) ==
    IF p.marks = <<>> THEN p
    ELSE [p EXCEPT !.marks[Len(p.marks)].brk_sp = @ + 1]

\* A Break was printed as a newline directly inside the top frame.
MarkNewline(p) ==
    IF p.marks = <<>> THEN p
    ELSE [p EXCEPT !.marks =
            [i \in 1..Len(p.marks) |->
                IF i = Len(p.marks)
                THEN [p.marks[i] EXCEPT !.brk_nl = @ + 1, !.any_nl = @ + 1]
                ELSE [p.marks[i] EXCEPT !.any_nl = @ + 1]]]

----------------------------------------------------------------------------
(* Printer side *)

\* get_top answering Fits, not Broken, for an empty print_stack.
get_top_outer_fits(p) ==
    IF p.print_stack = <<>> THEN Fits("Inconsistent") ELSE Last(p.print_stack)

get_top(p) ==
    IF p.print_stack = <<>> THEN Broken(0, "Inconsistent")
    ELSE Last(p.print_stack)

\* What is remembered of one print_break or print_begin: the length of out when
\* it ran, the size and space it compared, the frame on top of print_stack,
\* whether it broke (a Break printed as a newline, a Begin pushed as Broken),
\* the value of indent + offset, and the space it left.
Event(p, at, token, size, broke, after) ==
    [at |-> at, pos |-> Len(p.out), size |-> size, before |-> p.space,
     depth |-> Len(p.print_stack), frame |-> get_top(p).kind,
     breaks |-> get_top(p).breaks,
     comma |-> (at = "print_break" /\ token.trailing_comma),
     blank |-> IF at = "print_break" THEN token.blank_space ELSE 0,
     broke |-> broke, ind |-> p.indent + token.offset, space |-> after]

\* print_string dropping the pending indentation instead of writing it.
print_string_no_indent(p, string) ==
    [p EXCEPT !.out = @ \o string,
              !.pending_indentation = 0,
              !.space = @ - Len(string)]

\* print_string leaving space as it was.
print_string_keep_space(p, string) ==
    [p EXCEPT !.out = @ \o Rep(" ", p.pending_indentation) \o string,
              !.pending_indentation = 0]

print_string(p, string) ==
    [p EXCEPT !.out = @ \o Rep(" ", p.pending_indentation) \o string,
              !.pending_indentation = 0,
              !.space = @ - Len(string)]

\* print_break deciding a Consistent Broken frame by size, like an Inconsistent one.
print_break_fits_local(p, size) ==
    LET top == get_top(p) IN
    IF top.kind = "Fits" THEN TRUE
    ELSE size <= p.space

\* print_break breaking every Break printed while print_stack is empty.
print_break_fits_outer_never(p, size) ==
    LET top == get_top(p) IN
    IF p.print_stack = <<>> THEN FALSE
    ELSE IF top.kind = "Fits" THEN TRUE
    ELSE IF top.breaks = "Consistent" THEN FALSE
    ELSE size <= p.space

print_break_fits(p, size) ==
    LET top == get_top(p) IN
    IF top.kind = "Fits" THEN TRUE
    ELSE IF top.breaks = "Consistent" THEN FALSE
    ELSE size <= p.space

\* print_break writing a fitting Break's blanks to out at once instead of
\* buffering them in pending_indentation.
print_break_eager(p, token, size) ==
    IF print_break_fits(p, size)
    THEN MarkSpace([p EXCEPT !.out = @ \o Rep(" ", token.blank_space),
                             !.space = @ - token.blank_space,
                             !.events = @ \cup {Event(p, "print_break", token, size,
                                                      FALSE, p.space - token.blank_space)}])
    ELSE LET out1 == IF token.trailing_comma THEN Append(p.out, ",") ELSE p.out
             out2 == Append(out1, "\n")
             ind  == p.indent + token.offset
         IN IF ind < 0
            THEN Panics([p EXCEPT !.out = out2,
                                  !.events = @ \cup {Event(p, "print_break", token, size,
                                                           TRUE, p.space)}],
                        "print_break: indent + offset < 0")
            ELSE MarkNewline([p EXCEPT !.out = out2,
                                       !.pending_indentation = ind,
                                       !.space = Max(MARGIN - ind, MIN_SPACE),
                                       !.events = @ \cup {Event(p, "print_break", token, size,
                                                                TRUE, Max(MARGIN - ind, MIN_SPACE))}])

\* print_break writing the comma of a trailing_comma Break on the whitespace
\* path as well.
print_break_comma_always(p, token, size) ==
    LET out1 == IF token.trailing_comma THEN Append(p.out, ",") ELSE p.out IN
    IF print_break_fits(p, size)
    THEN MarkSpace([p EXCEPT !.out = out1,
                             !.pending_indentation = @ + token.blank_space,
                             !.space = @ - token.blank_space,
                             !.events = @ \cup {Event(p, "print_break", token, size,
                                                      FALSE, p.space - token.blank_space)}])
    ELSE LET out2 == Append(out1, "\n")
             ind  == p.indent + token.offset
         IN IF ind < 0
            THEN Panics([p EXCEPT !.out = out2,
                                  !.events = @ \cup {Event(p, "print_break", token, size,
                                                           TRUE, p.space)}],
                        "print_break: indent + offset < 0")
            ELSE MarkNewline([p EXCEPT !.out = out2,
                                       !.pending_indentation = ind,
                                       !.space = Max(MARGIN - ind, MIN_SPACE),
                                       !.events = @ \cup {Event(p, "print_break", token, size,
                                                                TRUE, Max(MARGIN - ind, MIN_SPACE))}])

\* print_break without the MIN_SPACE floor.
print_break_no_floor(p, token, size) ==
    IF print_break_fits(p, size)
    THEN MarkSpace([p EXCEPT !.pending_indentation = @ + token.blank_space,
                             !.space = @ - token.blank_space,
                             !.events = @ \cup {Event(p, "print_break", token, size,
                                                      FALSE, p.space - token.blank_space)}])
    ELSE LET out1 == IF token.trailing_comma THEN Append(p.out, ",") ELSE p.out
             out2 == Append(out1, "\n")
             ind  == p.indent + token.offset
         IN IF ind < 0
            THEN Panics([p EXCEPT !.out = out2,
                                  !.events = @ \cup {Event(p, "print_break", token, size,
                                                           TRUE, p.space)}],
                        "print_break: indent + offset < 0")
            ELSE MarkNewline([p EXCEPT !.out = out2,
                                       !.pending_indentation = ind,
                                       !.space = MARGIN - ind,
                                       !.events = @ \cup {Event(p, "print_break", token, size,
                                                                TRUE, MARGIN - ind)}])

\* print_break leaving space as it was for a Break printed as whitespace.
print_break_blank_free(p, token, size) ==
    IF print_break_fits(p, size)
    THEN MarkSpace([p EXCEPT !.pending_indentation = @ + token.blank_space,
                             !.events = @ \cup {Event(p, "print_break", token, size,
                                                      FALSE, p.space)}])
    ELSE LET out1 == IF token.trailing_comma THEN Append(p.out, ",") ELSE p.out
             out2 == Append(out1, "\n")
             ind  == p.indent + token.offset
         IN IF ind < 0
            THEN Panics([p EXCEPT !.out = out2,
                                  !.events = @ \cup {Event(p, "print_break", token, size,
                                                           TRUE, p.space)}],
                        "print_break: indent + offset < 0")
            ELSE MarkNewline([p EXCEPT !.out = out2,
                                       !.pending_indentation = ind,
                                       !.space = Max(MARGIN - ind, MIN_SPACE),
                                       !.events = @ \cup {Event(p, "print_break", token, size,
                                                                TRUE, Max(MARGIN - ind, MIN_SPACE))}])

print_break(p, token, size) ==
    IF print_break_fits(p, size)
    THEN MarkSpace([p EXCEPT !.pending_indentation = @ + token.blank_space,
                             !.space = @ - token.blank_space,
                             !.events = @ \cup {Event(p, "print_break", token, size,
                                                      FALSE, p.space - token.blank_space)}])
    ELSE LET out1 == IF token.trailing_comma THEN Append(p.out, ",") ELSE p.out
             out2 == Append(out1, "\n")
             ind  == p.indent + token.offset
         IN IF ind < 0
            THEN Panics([p EXCEPT !.out = out2,
                                  !.events = @ \cup {Event(p, "print_break", token, size,
                                                           TRUE, p.space)}],
                        "print_break: indent + offset < 0")
            ELSE MarkNewline([p EXCEPT !.out = out2,
                                       !.pending_indentation = ind,
                                       !.space = Max(MARGIN - ind, MIN_SPACE),
                                       !.events = @ \cup {Event(p, "print_break", token, size,
                                                                TRUE, Max(MARGIN - ind, MIN_SPACE))}])

\* print_begin with the comparison inverted.
print_begin_inverted(p, token, size) ==
    IF size < p.space
    THEN LET pushed == [p EXCEPT !.print_stack = Append(@, Broken(p.indent, token.breaks)),
                                 !.marks = Append(@, Mark(size, p.space, token.offset, p.indent)),
                                 !.events = @ \cup {Event(p, "print_begin", token, size,
                                                          TRUE, p.space)}]
         IN IF p.indent + token.offset < 0
            THEN Panics(pushed, "print_begin: indent + offset < 0")
            ELSE [pushed EXCEPT !.indent = p.indent + token.offset]
    ELSE [p EXCEPT !.print_stack = Append(@, Fits(token.breaks)),
                   !.marks = Append(@, Mark(size, p.space, token.offset, p.indent)),
                   !.events = @ \cup {Event(p, "print_begin", token, size,
                                            FALSE, p.space)}]

\* print_begin saturating a negative indent to 0 instead of panicking.
print_begin_saturating(p, token, size) ==
    IF size > p.space
    THEN [p EXCEPT !.print_stack = Append(@, Broken(p.indent, token.breaks)),
                   !.marks = Append(@, Mark(size, p.space, token.offset, p.indent)),
                   !.events = @ \cup {Event(p, "print_begin", token, size,
                                            TRUE, p.space)},
                   !.indent = Max(p.indent + token.offset, 0)]
    ELSE [p EXCEPT !.print_stack = Append(@, Fits(token.breaks)),
                   !.marks = Append(@, Mark(size, p.space, token.offset, p.indent)),
                   !.events = @ \cup {Event(p, "print_begin", token, size,
                                            FALSE, p.space)}]

\* print_begin pushing a Fits frame whatever the size.
print_begin_never_broken(p, token, size) ==
    [p EXCEPT !.print_stack = Append(@, Fits(token.breaks)),
              !.marks = Append(@, Mark(size, p.space, token.offset, p.indent)),
              !.events = @ \cup {Event(p, "print_begin", token, size,
                                       FALSE, p.space)}]

\* print_begin comparing the size with the whole line, not with what is left
\* of it.
print_begin_by_margin(p, token, size) ==
    IF size > MARGIN
    THEN LET pushed == [p EXCEPT !.print_stack = Append(@, Broken(p.indent, token.breaks)),
                                 !.marks = Append(@, Mark(size, p.space, token.offset, p.indent)),
                                 !.events = @ \cup {Event(p, "print_begin", token, size,
                                                          TRUE, p.space)}]
         IN IF p.indent + token.offset < 0
            THEN Panics(pushed, "print_begin: indent + offset < 0")
            ELSE [pushed EXCEPT !.indent = p.indent + token.offset]
    ELSE [p EXCEPT !.print_stack = Append(@, Fits(token.breaks)),
                   !.marks = Append(@, Mark(size, p.space, token.offset, p.indent)),
                   !.events = @ \cup {Event(p, "print_begin", token, size,
                                            FALSE, p.space)}]

print_begin(p, token, size) ==
    IF size > p.space
    THEN LET pushed == [p EXCEPT !.print_stack = Append(@, Broken(p.indent, token.breaks)),
                                 !.marks = Append(@, Mark(size, p.space, token.offset, p.indent)),
                                 !.events = @ \cup {Event(p, "print_begin", token, size,
                                                          TRUE, p.space)}]
         IN IF p.indent + token.offset < 0
            THEN Panics(pushed, "print_begin: indent + offset < 0")
            ELSE [pushed EXCEPT !.indent = p.indent + token.offset]
    ELSE [p EXCEPT !.print_stack = Append(@, Fits(token.breaks)),
                   !.marks = Append(@, Mark(size, p.space, token.offset, p.indent)),
                   !.events = @ \cup {Event(p, "print_begin", token, size,
                                            FALSE, p.space)}]

\* print_end popping the frame without restoring the indent it saved.
print_end_keep_indent(p) ==
    IF p.print_stack = <<>>
    THEN Panics(p, "print_end: pop of an empty print_stack")
    ELSE [p EXCEPT !.print_stack = Front(@),
                   !.marks = Front(@),
                   !.closed = @ \cup {[kind |-> Last(p.print_stack).kind,
                                       breaks |-> Last(p.print_stack).breaks,
                                       indent |-> p.indent,
                                       space |-> p.space,
                                       mark |-> Last(p.marks)]}]

\* print_end setting the indent to 0 when it pops a Broken frame.
print_end_zero_indent(p) ==
    IF p.print_stack = <<>>
    THEN Panics(p, "print_end: pop of an empty print_stack")
    ELSE LET frame == Last(p.print_stack)
             popped == [p EXCEPT !.print_stack = Front(@),
                                 !.marks = Front(@),
                                 !.closed = @ \cup {[kind |-> frame.kind,
                                                     breaks |-> frame.breaks,
                                                     indent |-> IF frame.kind = "Broken"
                                                                THEN 0 ELSE p.indent,
                                                     space |-> p.space,
                                                     mark |-> Last(p.marks)]}]
         IN IF frame.kind = "Broken"
            THEN [popped EXCEPT !.indent = 0]
            ELSE popped

print_end(p) ==
    IF p.print_stack = <<>>
    THEN Panics(p, "print_end: pop of an empty print_stack")
    ELSE LET frame == Last(p.print_stack)
             popped == [p EXCEPT !.print_stack = Front(@),
                                 !.marks = Front(@),
                                 !.closed = @ \cup {[kind |-> frame.kind,
                                                     breaks |-> frame.breaks,
                                                     indent |-> IF frame.kind = "Broken"
                                                                THEN frame.indent
                                                                ELSE p.indent,
                                                     space |-> p.space,
                                                     mark |-> Last(p.marks)]}]
         IN IF frame.kind = "Broken"
            THEN [popped EXCEPT !.indent = frame.indent]
            ELSE popped

\* advance_left not advancing left_total for a Break.
advance_left_step_skip_break(p) ==
    LET left == ring_first(p.buf)
        p1 == [p EXCEPT !.buf = ring_pop_first(@)]
    IN CASE left.token.kind = "String" ->
              print_string([p1 EXCEPT !.left_total = @ + Len(left.token.text)],
                           left.token.text)
         [] left.token.kind = "Break" -> print_break(p1, left.token, left.size)
         [] left.token.kind = "Begin" -> print_begin(p1, left.token, left.size)
         [] left.token.kind = "End" -> print_end(p1)

\* advance_left subtracting a String's length from left_total.
advance_left_step_minus(p) ==
    LET left == ring_first(p.buf)
        p1 == [p EXCEPT !.buf = ring_pop_first(@)]
    IN CASE left.token.kind = "String" ->
              print_string([p1 EXCEPT !.left_total = @ - Len(left.token.text)],
                           left.token.text)
         [] left.token.kind = "Break" ->
              print_break([p1 EXCEPT !.left_total = @ + left.token.blank_space],
                          left.token, left.size)
         [] left.token.kind = "Begin" -> print_begin(p1, left.token, left.size)
         [] left.token.kind = "End" -> print_end(p1)

advance_left_step(p) ==
    LET left == ring_first(p.buf)
        p1 == [p EXCEPT !.buf = ring_pop_first(@)]
    IN CASE left.token.kind = "String" ->
              print_string([p1 EXCEPT !.left_total = @ + Len(left.token.text)],
                           left.token.text)
         [] left.token.kind = "Break" ->
              print_break([p1 EXCEPT !.left_total = @ + left.token.blank_space],
                          left.token, left.size)
         [] left.token.kind = "Begin" -> print_begin(p1, left.token, left.size)
         [] left.token.kind = "End" -> print_end(p1)

\* advance_left printing at most one entry.
advance_left_once(p) ==
    IF p.panic # "none" THEN p
    ELSE IF ring_is_empty(p.buf)
    THEN Panics(p, "advance_left: first() of an empty buf")
    ELSE IF ring_first(p.buf).size < 0 THEN p
    ELSE advance_left_step(p)

RECURSIVE advance_left(_)
advance_left(p) ==
    IF p.panic # "none" THEN p
    ELSE IF ring_is_empty(p.buf)
    THEN Panics(p, "advance_left: first() of an empty buf")
    ELSE IF ring_first(p.buf).size < 0 THEN p
    ELSE LET p2 == advance_left_step(p)
         IN IF p2.panic # "none" \/ ring_is_empty(p2.buf) THEN p2
            ELSE advance_left(p2)

----------------------------------------------------------------------------
(* Scanner side *)


\* What is remembered of a size resolved by check_stack: the kind of the entry,
\* the depth it was met at, the resolved size, and the width of the entries
\* from it to the back of buf at that moment.
Resolved(p, index, depth, size) ==
    [at |-> "check_stack", kind |-> ring_get(p.buf, index).token.kind,
     depth |-> depth, size |-> size, span |-> SpanWidth(p.buf, index)]

\* check_stack resolving a Begin or a Break to right_total alone.
resolve_no_base(p, index, depth) ==
    [p EXCEPT !.buf = ring_set_size(@, index, p.right_total),
              !.events = @ \cup {Resolved(p, index, depth, p.right_total)}]

\* entry.size += self.right_total, for the entry at index met at depth.
resolve(p, index, depth) ==
    LET size == ring_get(p.buf, index).size + p.right_total
    IN [p EXCEPT !.buf = ring_set_size(@, index, size),
                 !.events = @ \cup {Resolved(p, index, depth, size)}]

\* check_stack resolving and popping a Begin met at depth 0.
RECURSIVE check_stack_pop_begin(_, _)
check_stack_pop_begin(p, depth) ==
    IF p.panic # "none" \/ p.scan_stack = <<>> THEN p
    ELSE LET index == Last(p.scan_stack) IN
         IF ~ring_live(p.buf, index)
         THEN Panics(p, "check_stack: buf index out of range")
         ELSE LET entry == ring_get(p.buf, index)
                  popped == [p EXCEPT !.scan_stack = Front(@)]
              IN CASE entry.token.kind = "Begin" ->
                        IF depth = 0 THEN resolve(popped, index, depth)
                        ELSE check_stack_pop_begin(resolve(popped, index, depth),
                                                   depth - 1)
                   [] entry.token.kind = "End" ->
                        check_stack_pop_begin(
                            [popped EXCEPT !.buf = ring_set_size(@, index, 1)],
                            depth + 1)
                   [] entry.token.kind = "Break" ->
                        LET p1 == resolve(popped, index, depth)
                        IN IF depth = 0 THEN p1 ELSE check_stack_pop_begin(p1, depth)
                   [] entry.token.kind = "String" ->
                        Panics(p, "check_stack: String on scan_stack")

RECURSIVE check_stack(_, _)
check_stack(p, depth) ==
    IF p.panic # "none" \/ p.scan_stack = <<>> THEN p
    ELSE LET index == Last(p.scan_stack) IN
         IF ~ring_live(p.buf, index)
         THEN Panics(p, "check_stack: buf index out of range")
         ELSE LET entry == ring_get(p.buf, index)
                  popped == [p EXCEPT !.scan_stack = Front(@)]
              IN CASE entry.token.kind = "Begin" ->
                        IF depth = 0 THEN p
                        ELSE check_stack(resolve(popped, index, depth), depth - 1)
                   [] entry.token.kind = "End" ->
                        check_stack([popped EXCEPT !.buf = ring_set_size(@, index, 1)],
                                    depth + 1)
                   [] entry.token.kind = "Break" ->
                        LET p1 == resolve(popped, index, depth)
                        IN IF depth = 0 THEN p1 ELSE check_stack(p1, depth)
                   [] entry.token.kind = "String" ->
                        Panics(p, "check_stack: String on scan_stack")

\* check_stream never forcing the front entry to SIZE_INFINITY.
check_stream_force_never(p) == p

\* check_stream forcing the front entry without scan_stack.pop_front().
check_stream_force_no_pop(p) ==
    IF Head(p.scan_stack) = ring_index_of_first(p.buf) /\ ~ring_is_empty(p.buf)
    THEN [p EXCEPT !.buf = ring_set_size(@, ring_index_of_first(p.buf),
                                         SIZE_INFINITY)]
    ELSE p

\* check_stream comparing the back of scan_stack, not the front, with the
\* first entry of buf.
check_stream_force_back(p) ==
    IF Last(p.scan_stack) = ring_index_of_first(p.buf) /\ ~ring_is_empty(p.buf)
    THEN [p EXCEPT !.scan_stack = Front(@),
                   !.buf = ring_set_size(@, ring_index_of_first(p.buf),
                                         SIZE_INFINITY)]
    ELSE p

check_stream_force(p) ==
    IF Head(p.scan_stack) = ring_index_of_first(p.buf)
    THEN IF ring_is_empty(p.buf)
         THEN Panics([p EXCEPT !.scan_stack = Tail(@)],
                     "check_stream: first_mut() of an empty buf")
         ELSE [p EXCEPT !.scan_stack = Tail(@),
                        !.buf = ring_set_size(@, ring_index_of_first(p.buf),
                                              SIZE_INFINITY)]
    ELSE p

\* What is remembered of one iteration of the loop of check_stream: whether
\* the front entry was forced, whether it was resolved before, the number of
\* entries advance_left removed from buf, and how advance_left left buf.
Iteration(p, forced, left) ==
    [at |-> "check_stream",
     forced |-> forced.scan_stack # p.scan_stack,
     resolved |-> ~ring_is_empty(p.buf) /\ ring_first(p.buf).size >= 0,
     removed |-> left.buf.offset - p.buf.offset,
     rest |-> IF left.panic # "none" THEN "panic"
              ELSE IF ring_is_empty(left.buf) THEN "empty"
              ELSE IF ring_first(left.buf).size < 0 THEN "unresolved"
              ELSE "resolved"]

RECURSIVE check_stream(_)
check_stream(p) ==
    IF p.panic # "none" THEN p
    ELSE IF ~(p.right_total - p.left_total > p.space) THEN p
    ELSE IF p.scan_stack = <<>>
    THEN Panics(p, "check_stream: unwrap of an empty scan_stack")
    ELSE LET forced == check_stream_force(p)
             left == advance_left(forced)
             p2 == [left EXCEPT !.events = @ \cup {Iteration(p, forced, left)}]
         IN IF p2.panic # "none" \/ ring_is_empty(p2.buf) THEN p2
            ELSE IF left = p THEN Panics(p, "check_stream: does not terminate")
            ELSE check_stream(p2)

\* The rebase leaving right_total as it was.
rebase_left_only(p) ==
    [p EXCEPT !.left_total = 1, !.buf = ring_clear(@)]

\* The rebase clearing buf but leaving both counters as they were.
rebase_clear_only(p) ==
    [p EXCEPT !.buf = ring_clear(@)]

rebase(p) ==
    [p EXCEPT !.left_total = 1, !.right_total = 1, !.buf = ring_clear(@)]

\* scan_begin rebasing whether or not scan_stack is empty.
scan_begin_always_rebase(p, token) ==
    LET p1 == rebase(p)
        right == ring_push_index(p1.buf)
    IN [p1 EXCEPT !.buf = ring_push(@, BufEntry(token, -p1.right_total)),
                  !.scan_stack = Append(@, right)]

scan_begin(p, token) ==
    LET p1 == IF p.scan_stack = <<>> THEN rebase(p) ELSE p
        right == ring_push_index(p1.buf)
    IN [p1 EXCEPT !.buf = ring_push(@, BufEntry(token, -p1.right_total)),
                  !.scan_stack = Append(@, right)]

\* scan_end appending End without pushing its index on scan_stack.
scan_end_push_no_index(p) ==
    [p EXCEPT !.buf = ring_push(@, BufEntry(EndToken, -1))]

scan_end_push(p) ==
    LET right == ring_push_index(p.buf)
    IN [p EXCEPT !.buf = ring_push(@, BufEntry(EndToken, -1)),
                 !.scan_stack = Append(@, right)]

\* VecDeque::pop_back on an empty deque returns None, which the code ignores.
pop_back(s) == IF s = <<>> THEN s ELSE Front(s)

\* scan_end with one scan_stack.pop_back() missing in the empty-block peephole.
scan_end_one_pop(p) ==
    IF p.scan_stack = <<>> THEN print_end(p)
    ELSE IF ring_len(p.buf) >= 1 /\ ring_last(p.buf).token.kind = "Break"
    THEN LET break_token == ring_last(p.buf).token IN
         IF ring_len(p.buf) >= 2 /\ ring_second_last(p.buf).token.kind = "Begin"
         THEN [p EXCEPT !.buf = ring_pop_last(ring_pop_last(@)),
                        !.scan_stack = pop_back(@),
                        !.right_total = @ - break_token.blank_space,
                        !.elided = @ + 1]
         ELSE IF break_token.if_nonempty
         THEN scan_end_push([p EXCEPT !.buf = ring_pop_last(@),
                                      !.scan_stack = pop_back(@),
                                      !.right_total = @ - break_token.blank_space,
                                      !.elided = @ + 1])
         ELSE scan_end_push(p)
    ELSE scan_end_push(p)

\* scan_end leaving right_total as it is when it removes an empty block.
scan_end_no_subtract(p) ==
    IF p.scan_stack = <<>> THEN print_end(p)
    ELSE IF ring_len(p.buf) >= 1 /\ ring_last(p.buf).token.kind = "Break"
    THEN LET break_token == ring_last(p.buf).token IN
         IF ring_len(p.buf) >= 2 /\ ring_second_last(p.buf).token.kind = "Begin"
         THEN [p EXCEPT !.buf = ring_pop_last(ring_pop_last(@)),
                        !.scan_stack = pop_back(pop_back(@)),
                        !.elided = @ + 1]
         ELSE IF break_token.if_nonempty
         THEN scan_end_push([p EXCEPT !.buf = ring_pop_last(@),
                                      !.scan_stack = pop_back(@),
                                      !.right_total = @ - break_token.blank_space,
                                      !.elided = @ + 1])
         ELSE scan_end_push(p)
    ELSE scan_end_push(p)

\* scan_end removing a final Break whether or not it is if_nonempty.
scan_end_suppress_any(p) ==
    IF p.scan_stack = <<>> THEN print_end(p)
    ELSE IF ring_len(p.buf) >= 1 /\ ring_last(p.buf).token.kind = "Break"
    THEN LET break_token == ring_last(p.buf).token IN
         IF ring_len(p.buf) >= 2 /\ ring_second_last(p.buf).token.kind = "Begin"
         THEN [p EXCEPT !.buf = ring_pop_last(ring_pop_last(@)),
                        !.scan_stack = pop_back(pop_back(@)),
                        !.right_total = @ - break_token.blank_space,
                        !.elided = @ + 1]
         ELSE scan_end_push([p EXCEPT !.buf = ring_pop_last(@),
                                      !.scan_stack = pop_back(@),
                                      !.right_total = @ - break_token.blank_space,
                                      !.elided = @ + 1])
    ELSE scan_end_push(p)

scan_end(p) ==
    IF p.scan_stack = <<>> THEN print_end(p)
    ELSE IF ring_len(p.buf) >= 1 /\ ring_last(p.buf).token.kind = "Break"
    THEN LET break_token == ring_last(p.buf).token IN
         IF ring_len(p.buf) >= 2 /\ ring_second_last(p.buf).token.kind = "Begin"
         THEN [p EXCEPT !.buf = ring_pop_last(ring_pop_last(@)),
                        !.scan_stack = pop_back(pop_back(@)),
                        !.right_total = @ - break_token.blank_space,
                        !.elided = @ + 1]
         ELSE IF break_token.if_nonempty
         THEN scan_end_push([p EXCEPT !.buf = ring_pop_last(@),
                                      !.scan_stack = pop_back(@),
                                      !.right_total = @ - break_token.blank_space,
                                      !.elided = @ + 1])
         ELSE scan_end_push(p)
    ELSE scan_end_push(p)

\* scan_break without check_stack(0): the previous Break stays unresolved.
scan_break_no_check_stack(p, token) ==
    LET p1 == IF p.scan_stack = <<>> THEN rebase(p) ELSE p
        right == ring_push_index(p1.buf)
    IN [p1 EXCEPT !.buf = ring_push(@, BufEntry(token, -p1.right_total)),
                  !.scan_stack = Append(@, right),
                  !.right_total = @ + token.blank_space]

scan_break(p, token) ==
    LET p1 == IF p.scan_stack = <<>> THEN rebase(p) ELSE check_stack(p, 0)
        right == ring_push_index(p1.buf)
    IN IF p1.panic # "none" THEN p1
       ELSE [p1 EXCEPT !.buf = ring_push(@, BufEntry(token, -p1.right_total)),
                       !.scan_stack = Append(@, right),
                       !.right_total = @ + token.blank_space]

\* scan_string without the call of check_stream.
scan_string_no_check(p, string) ==
    IF p.scan_stack = <<>> THEN print_string(p, string)
    ELSE [p EXCEPT !.buf = ring_push(@, BufEntry(StringToken(string), Len(string))),
                   !.right_total = @ + Len(string)]

scan_string(p, string) ==
    IF p.scan_stack = <<>> THEN print_string(p, string)
    ELSE check_stream([p EXCEPT !.buf = ring_push(@, BufEntry(StringToken(string),
                                                              Len(string))),
                                !.right_total = @ + Len(string)])

\* offset doing nothing, silently, when the last entry is a String or an End.
offset_silent(p, delta) ==
    IF ring_is_empty(p.buf)
    THEN Panics(p, "offset: last_mut() of an empty buf")
    ELSE IF ring_last(p.buf).token.kind = "Break"
         THEN [p EXCEPT !.buf.data[Len(p.buf.data)].token.offset = @ + delta]
         ELSE p

offset(p, delta) ==
    IF ring_is_empty(p.buf)
    THEN Panics(p, "offset: last_mut() of an empty buf")
    ELSE LET kind == ring_last(p.buf).token.kind IN
         IF kind = "Break"
         THEN [p EXCEPT !.buf.data[Len(p.buf.data)].token.offset = @ + delta]
         ELSE IF kind = "Begin" THEN p
         ELSE Panics(p, "offset: unreachable")

\* eof without the final check_stack(0).
eof_no_check_stack(p) ==
    IF p.scan_stack # <<>> THEN advance_left(p) ELSE p

eof(p) ==
    IF p.scan_stack # <<>> THEN advance_left(check_stack(p, 0)) ELSE p

----------------------------------------------------------------------------
(* The state machine *)

Set(p) ==
    /\ out' = p.out
    /\ space' = p.space
    /\ buf' = p.buf
    /\ left_total' = p.left_total
    /\ right_total' = p.right_total
    /\ scan_stack' = p.scan_stack
    /\ print_stack' = p.print_stack
    /\ indent' = p.indent
    /\ pending_indentation' = p.pending_indentation
    /\ panic' = p.panic
    /\ marks' = p.marks
    /\ closed' = p.closed
    /\ elided' = p.elided
    /\ events' = p.events

InitPrinter ==
    /\ out = new.out
    /\ space = new.space
    /\ buf = new.buf
    /\ left_total = new.left_total
    /\ right_total = new.right_total
    /\ scan_stack = new.scan_stack
    /\ print_stack = new.print_stack
    /\ indent = new.indent
    /\ pending_indentation = new.pending_indentation
    /\ panic = new.panic
    /\ marks = new.marks
    /\ closed = new.closed
    /\ elided = new.elided
    /\ events = new.events
    /\ open = <<>>
    /\ last_call = "new"
    /\ calls = 0
    /\ texts_clean = TRUE
    /\ scanned = <<>>
    /\ segment = 0
    /\ finished = FALSE

Init == InitPrinter /\ script = NoScript

\* The driver can call an operation: the Printer is alive and not consumed.
CanCall(max) == panic = "none" /\ ~finished /\ calls < max

Called(name) == last_call' = name /\ calls' = calls + 1

Call_scan_begin(tokens, max) ==
    \E token \in tokens :
        /\ CanCall(max)
        /\ \E p \in {scan_begin(Printer, token)} : Set(p)
        /\ open' = Append(open, token.offset)
        /\ Called("scan_begin")
        /\ UNCHANGED <<texts_clean, scanned, segment, finished, script>>

Call_scan_end(max) ==
    /\ CanCall(max)
    /\ open # <<>>
    /\ \E p \in {scan_end(Printer)} : Set(p)
    /\ open' = Front(open)
    /\ Called("scan_end")
    /\ UNCHANGED <<texts_clean, scanned, segment, finished, script>>

Call_scan_break(tokens, max) ==
    \E token \in tokens :
        /\ CanCall(max)
        /\ \E p \in {scan_break(Printer, token)} : Set(p)
        /\ Called("scan_break")
        /\ segment' = 0
        /\ UNCHANGED <<open, texts_clean, scanned, finished, script>>

Call_scan_string(texts, max) ==
    \E string \in texts :
        /\ CanCall(max)
        /\ \E p \in {scan_string(Printer, string)} : Set(p)
        /\ texts_clean' = (texts_clean /\ string # <<>> /\ Last(string) # " ")
        /\ scanned' = scanned \o string
        /\ segment' = segment + Len(string)
        /\ Called("scan_string")
        /\ UNCHANGED <<open, finished, script>>

\* offset() directly after scan_begin (a no-op), or after a scan_break inside a
\* block whose Begin offset covers the negative delta.
Call_offset(max) ==
    \E delta \in Deltas :
        /\ CanCall(max)
        /\ \/ last_call = "scan_begin"
           \/ last_call = "scan_break" /\ open # <<>> /\ Last(open) + delta >= 0
        /\ \E p \in {offset(Printer, delta)} : Set(p)
        /\ Called("offset")
        /\ UNCHANGED <<open, texts_clean, scanned, segment, finished, script>>

\* eof consumes the Printer; a balanced driver calls it with no block open.
Call_eof ==
    /\ panic = "none" /\ ~finished
    /\ open = <<>>
    /\ \E p \in {eof(Printer)} : Set(p)
    /\ finished' = TRUE
    /\ last_call' = "eof"
    /\ UNCHANGED <<open, calls, texts_clean, scanned, segment, script>>

\* A balanced driver whose Strings are drawn from texts.
Next ==
    \/ Call_scan_begin(BeginTokens, MaxCalls)
    \/ Call_scan_end(MaxCalls)
    \/ Call_scan_break(BreakTokens, MaxCalls)
    \/ Call_scan_string(Texts, MaxCalls)
    \/ Call_offset(MaxCalls)
    \/ Call_eof

Spec == Init /\ [][Next]_vars

\* The same driver, also scanning texts that are empty or end with a space.
NextAnyText ==
    \/ Call_scan_begin(BeginTokens, MaxTextCalls)
    \/ Call_scan_end(MaxTextCalls)
    \/ Call_scan_break(BreakTokens, MaxTextCalls)
    \/ Call_scan_string(Texts \cup SpacedTexts, MaxTextCalls)
    \/ Call_offset(MaxTextCalls)
    \/ Call_eof

SpecAnyText == Init /\ [][NextAnyText]_vars

\* A balanced driver that scans through the facade helpers, as path.rs does.
NextFacade ==
    \/ Call_scan_begin(FacadeBegins, MaxFacadeCalls)
    \/ Call_scan_end(MaxFacadeCalls)
    \/ Call_scan_break(FacadeBreaks, MaxFacadeCalls)
    \/ Call_scan_string(Texts, MaxFacadeCalls)
    \/ Call_offset(MaxFacadeCalls)
    \/ Call_eof

SpecFacade == Init /\ [][NextFacade]_vars

\* Texts for a driver whose Strings between two Breaks total at most MIN_SPACE.
FitTexts == { <<"x">>, Rep("x", 39), Rep("x", MIN_SPACE) }

\* A balanced driver of the facade that scans at most MIN_SPACE characters
\* between two Breaks, before the first Break and after the last one.
NextFit ==
    \/ Call_scan_begin(FacadeBegins, MaxFitCalls)
    \/ Call_scan_end(MaxFitCalls)
    \/ Call_scan_break(FacadeBreaks, MaxFitCalls)
    \/ Call_scan_string({ t \in FitTexts : segment + Len(t) <= MIN_SPACE },
                        MaxFitCalls)
    \/ Call_offset(MaxFitCalls)
    \/ Call_eof

SpecFit == Init /\ [][NextFit]_vars

\* scan_end called with no block open.
Call_scan_end_unbalanced(max) ==
    /\ CanCall(max)
    /\ open = <<>>
    /\ \E p \in {scan_end(Printer)} : Set(p)
    /\ Called("scan_end")
    /\ UNCHANGED <<open, texts_clean, scanned, segment, finished, script>>

\* offset() called after any operation, whatever the last entry of buf.
Call_offset_anywhere(max) ==
    \E delta \in Deltas :
        /\ CanCall(max)
        /\ \E p \in {offset(Printer, delta)} : Set(p)
        /\ Called("offset")
        /\ UNCHANGED <<open, texts_clean, scanned, segment, finished, script>>

\* A driver that may be wrong: Ends without a Begin, offset() anywhere,
\* offsets that take the indent below 0.
NextMisuse ==
    \/ Call_scan_begin(MisuseBegins, MaxMisuseCalls)
    \/ Call_scan_end(MaxMisuseCalls)
    \/ Call_scan_end_unbalanced(MaxMisuseCalls)
    \/ Call_scan_break(MisuseBreaks, MaxMisuseCalls)
    \/ Call_scan_string(Texts, MaxMisuseCalls)
    \/ Call_offset_anywhere(MaxMisuseCalls)
    \/ Call_eof

SpecMisuse == Init /\ [][NextMisuse]_vars

\* A scripted driver: a fresh Printer and one of the scenario call sequences.
InitScript ==
    /\ InitPrinter
    /\ \/ \E n \in BoxOffsets, k \in 1..MaxWords : \E ws \in Words(WordLens, k) :
              script = BlockScript("S3", cbox(n), ws)
       \/ \E ws \in Words(WordLens, 3) :
              /\ Len(ws[1]) + 1 + Len(ws[2]) <= MARGIN
              /\ Len(ws[1]) + Len(ws[2]) + Len(ws[3]) + 2 > MARGIN
              /\ Len(ws[3]) <= MARGIN - INDENT
              /\ script = BlockScript("S4", ibox(INDENT), ws)
       \/ \E l \in LongLens :
              script = BlockScript("S2", cbox(INDENT), <<Rep("a", l), <<"b">>>>)
       \/ \E d \in 1..MaxNest, l \in {1} \cup LongLens :
              script = NestScript(d, Rep("x", l))
       \/ \E colon2 \in BOOLEAN, len \in ArgLens : \E args \in ArgLists(len) :
              script = GenericScript(colon2, args)

\* The next call of the script is op.
Scripted(op) ==
    /\ calls < Len(script.calls)
    /\ script.calls[calls + 1].op = op

NextArg == script.calls[calls + 1].arg

Run_scan_begin == Scripted("scan_begin") /\ Call_scan_begin({NextArg}, Len(script.calls))
Run_scan_end == Scripted("scan_end") /\ Call_scan_end(Len(script.calls))
Run_scan_break == Scripted("scan_break") /\ Call_scan_break({NextArg}, Len(script.calls))
Run_scan_string == Scripted("scan_string") /\ Call_scan_string({NextArg}, Len(script.calls))
Run_offset ==
    Scripted("offset") /\ NextArg \in Deltas /\ Call_offset_anywhere(Len(script.calls))
Run_eof == calls = Len(script.calls) /\ Call_eof

NextScript ==
    \/ Run_scan_begin
    \/ Run_scan_end
    \/ Run_scan_break
    \/ Run_scan_string
    \/ Run_offset
    \/ Run_eof

SpecScript == InitScript /\ [][NextScript]_vars

----------------------------------------------------------------------------
(* Measures used by the properties *)

BufWidth == SumWidth(buf.data)

\* The blank_space of the Breaks that follow the last String of data.
RECURSIVE TrailBreakWidth(_)
TrailBreakWidth(data) ==
    IF data = <<>> \/ Last(data).token.kind = "String" THEN 0
    ELSE Width(Last(data)) + TrailBreakWidth(Front(data))

\* The frames printed so far: those still on print_stack and those popped.
OpenFrames ==
    { [kind |-> print_stack[i].kind, breaks |-> print_stack[i].breaks,
       mark |-> marks[i]] : i \in 1..Len(print_stack) }
PrintedFrames == OpenFrames \cup closed

----------------------------------------------------------------------------
(* C1: a well-formed driver sequence (Begin/End balanced, offset() only     *)
(* directly after scan_begin or scan_break, no indent + offset below 0)     *)
(* followed by eof makes no engine operation panic.                         *)
C1_NoPanic == panic = "none"

C1_Witness ==
    /\ finished /\ panic = "none" /\ elided >= 1
    /\ \E c \in closed : c.kind = "Broken" /\ c.mark.brk_nl >= 1

(* C2: when every Begin is matched by one End, at the moment eof returns    *)
(* scan_stack, print_stack and buf are all empty.                           *)
C2_EmptyAtEof ==
    finished => scan_stack = <<>> /\ print_stack = <<>> /\ ring_is_empty(buf)

C2_Witness ==
    /\ finished /\ scan_stack = <<>> /\ print_stack = <<>> /\ ring_is_empty(buf)
    /\ \E c \in closed : c.kind = "Fits" /\ c.mark.brk_sp >= 1


\* No line of out ends with a space: no ' ' is the last character of out or
\* stands immediately before a newline.
NoLineEndsWithSpace ==
    \A i \in 1..Len(out) :
        out[i] = " " => i < Len(out) /\ out[i + 1] # "\n"

(* C3, as stated: for all valid driver sequences, in every reachable value  *)
(* of out no line ends with a space.                                        *)
C3_Original == NoLineEndsWithSpace

(* C3, amended: as long as every scanned String text is non-empty and does  *)
(* not itself end with a space, no line of out ends with a space.           *)
C3_NoTrailingSpace == texts_clean => NoLineEndsWithSpace

C3_Witness ==
    /\ texts_clean /\ calls >= 4
    /\ \E i \in 1..Len(out) : out[i] = "\n"
    /\ \E i \in 1..Len(out) : out[i] = " "

(* C4: in a Consistent block, if any Break directly inside the block is     *)
(* emitted as a newline then every Break directly inside it is: no          *)
(* Consistent frame has both a newline Break and a whitespace Break.        *)
C4_ConsistentLaw ==
    \A f \in PrintedFrames :
        f.breaks = "Consistent" => ~(f.mark.brk_nl > 0 /\ f.mark.brk_sp > 0)

C4_Witness ==
    \E f \in PrintedFrames :
        f.breaks = "Consistent" /\ f.kind = "Broken" /\ f.mark.brk_nl >= 2

(* C5, as stated: a block is emitted entirely on one line if and only if    *)
(* the size of its Begin entry is <= space when print_begin handles it.     *)
C5_Original ==
    \A c \in closed : (c.mark.any_nl = 0) <=> (c.mark.size <= c.mark.space)

(* C5, amended: if the size of a block's Begin entry is <= space when       *)
(* print_begin handles it, no newline is written to out between the         *)
(* printing of its Begin and of its matching End (the converse fails).      *)
C5_FitsOnOneLine ==
    \A f \in PrintedFrames : f.mark.size <= f.mark.space => f.mark.any_nl = 0

C5_Witness ==
    \E c \in closed :
        c.mark.size <= c.mark.space /\ c.mark.size >= 3 /\ c.mark.brk_sp >= 1


(* C6, as stated: at every moment the sum of the widths of the String and   *)
(* Break entries held in buf does not exceed space + MARGIN.                *)
C6_Original == BufWidth <= space + MARGIN

(* C6, amended: at every moment the sum of the widths of the String and   *)
(* Break entries held in buf does not exceed max(space, 0) plus the         *)
(* blank_space of the Breaks buffered after the last buffered String.       *)
C6_BoundedBuffering == BufWidth <= Max(space, 0) + TrailBreakWidth(buf.data)

C6_Witness ==
    /\ BufWidth > Max(space, 0) /\ BufWidth >= 2
    /\ TrailBreakWidth(buf.data) = BufWidth

(* C7, as stated: right_total - left_total <= space + 1 in every state.     *)
C7_Original == right_total - left_total <= space + 1

(* C7, amended: when scan_string returns, buf is empty or                   *)
(* right_total - left_total <= space; Breaks scanned afterwards raise the   *)
(* difference without any flush.                                            *)
C7_LookaheadAfterString ==
    last_call = "scan_string" =>
        ring_is_empty(buf) \/ right_total - left_total <= space

C7_Witness ==
    /\ last_call = "scan_string" /\ ~ring_is_empty(buf)
    /\ left_total > 1 /\ right_total - left_total >= 40

(* C8: right_total >= left_total in every reachable state, across           *)
(* scan_begin, scan_break, scan_string, scan_end with both peephole         *)
(* elisions, offset and eof.                                                *)
C8_RightGeLeft == right_total >= left_total

C8_Witness ==
    /\ last_call = "scan_end" /\ elided >= 1
    /\ right_total = left_total /\ ~ring_is_empty(buf)

\* A step that rebases: scan_begin or scan_break called with scan_stack empty.
RebaseStep == scan_stack = <<>> /\ last_call' \in {"scan_begin", "scan_break"}

(* C9, as stated: every step that is not a rebase leaves left_total and     *)
(* right_total equal or larger.                                             *)
C9_Original ==
    [][~RebaseStep => left_total' >= left_total /\ right_total' >= right_total]_vars

(* C9, amended: a step that is not a rebase never decreases left_total, and *)
(* decreases right_total only in scan_end when a peephole removes the last  *)
(* Break of buf, and then by exactly that Break's blank_space.              *)
C9_MonotoneTotals ==
    [][~RebaseStep =>
          /\ left_total' >= left_total
          /\ \/ right_total' >= right_total
             \/ /\ last_call' = "scan_end"
                /\ elided' = elided + 1
                /\ right_total' = right_total - ring_last(buf).token.blank_space]_vars

C9_Witness == elided >= 1 /\ left_total > 1 /\ right_total > left_total

(* C10: right_total - left_total equals the sum of the logical widths       *)
(* (String length, Break blank_space, 0 for Begin and End) of the entries   *)
(* currently in buf.                                                        *)
C10_WidthIsDifference == right_total - left_total = BufWidth

C10_Witness ==
    /\ left_total > 1 /\ BufWidth >= 41
    /\ \E i \in 1..Len(buf.data) : buf.data[i].token.kind = "Break"
    /\ \E i \in 1..Len(buf.data) : buf.data[i].token.kind = "String"

(* C11: whenever scan_begin or scan_break is called with scan_stack empty,  *)
(* the rebase leaves left_total = right_total = 1 and buf empty, so that    *)
(* after the call buf holds exactly the one entry just appended (stamped    *)
(* with size -1, the negated right_total of the rebase) and scan_stack      *)
(* holds exactly its index.                                                 *)
C11_Rebase ==
    [][RebaseStep =>
          /\ rebase(Printer).left_total = 1
          /\ rebase(Printer).right_total = 1
          /\ ring_is_empty(rebase(Printer).buf)
          /\ ring_len(buf') = 1
          /\ scan_stack' = <<ring_index_of_first(buf')>>
          /\ ring_first(buf').token.kind = (IF last_call' = "scan_begin"
                                            THEN "Begin" ELSE "Break")
          /\ ring_first(buf').size = -1
          /\ left_total' = 1
          /\ right_total' = 1 + Width(ring_first(buf'))]_vars

C11_Witness ==
    /\ last_call \in {"scan_begin", "scan_break"}
    /\ left_total = 1 /\ ring_len(buf) = 1
    /\ scan_stack = <<ring_index_of_first(buf)>>
    /\ ring_index_of_first(buf) >= 3 /\ Len(out) >= 80

(* C12: in every reachable state every index stored in scan_stack refers to *)
(* an entry in buf's live range [index_of_first, index_of_first + len), and *)
(* scan_stack is strictly increasing from front to back; also after the     *)
(* pop_last of scan_end's peepholes and the pop_front of check_stream.      *)
C12_ScanStackLive ==
    /\ \A i \in 1..Len(scan_stack) : ring_live(buf, scan_stack[i])
    /\ \A i \in 1..Len(scan_stack) - 1 : scan_stack[i] < scan_stack[i + 1]

C12_Witness ==
    /\ Len(scan_stack) >= 2 /\ ring_index_of_first(buf) > 0
    /\ ring_len(buf) > Len(scan_stack)

(* C13: from any reachable state, scan_begin(b); scan_break(k); scan_end()  *)
(* writes nothing to out and leaves print_stack, indent, space and          *)
(* pending_indentation unchanged; if scan_stack was non-empty before, buf,  *)
(* scan_stack, left_total and right_total are also exactly as before; on a  *)
(* fresh engine cbox(4), zerobreak(), end(), eof yields the empty string.   *)
C13_EmptyBlockElision ==
    /\ panic = "none" /\ ~finished =>
          \A b \in FacadeBegins, k \in FacadeBreaks \cup BreakTokens :
              \A q \in {scan_end(scan_break(scan_begin(Printer, b), k))} :
              /\ q.panic = "none"
              /\ q.out = out
              /\ q.print_stack = print_stack
              /\ q.indent = indent
              /\ q.space = space
              /\ q.pending_indentation = pending_indentation
              /\ scan_stack # <<>> =>
                    /\ q.buf = buf
                    /\ q.scan_stack = scan_stack
                    /\ q.left_total = left_total
                    /\ q.right_total = right_total
    /\ eof(scan_end(scan_break(scan_begin(new, cbox(INDENT)), zerobreak))).out = <<>>

\* scan_end has just removed an empty block scanned inside an open one.
C13_Witness ==
    /\ last_call = "scan_end" /\ elided >= 1
    /\ out # <<>> /\ scan_stack # <<>>
    /\ ring_last(buf).token.kind # "End"
    /\ right_total - left_total = BufWidth

\* The words of ws joined by sep.
RECURSIVE Join(_, _)
Join(ws, sep) ==
    IF Len(ws) = 0 THEN <<>>
    ELSE IF Len(ws) = 1 THEN ws[1]
    ELSE ws[1] \o sep \o Join(Tail(ws), sep)

\* The width of the words of ws on one line, separated by single spaces.
RECURSIVE OneLineWidth(_)
OneLineWidth(ws) ==
    IF Len(ws) = 0 THEN 0
    ELSE IF Len(ws) = 1 THEN Len(ws[1])
    ELSE Len(ws[1]) + 1 + OneLineWidth(Tail(ws))

(* C14: on a fresh engine, cbox(n), word(w1), space(), ..., word(wk), end(), *)
(* eof with n <= MARGIN - MIN_SPACE: if the word lengths plus k-1 are       *)
(* <= MARGIN the output is the words joined by single spaces on one line;   *)
(* otherwise every space() becomes a newline followed by n spaces.          *)
C14_ConsistentAllOrNone ==
    script.name = "S3" =>
        /\ panic = "none"
        /\ finished =>
              out = IF OneLineWidth(script.words) <= MARGIN
                    THEN Join(script.words, <<" ">>)
                    ELSE Join(script.words, <<"\n">> \o Rep(" ", script.n))

C14_Witness ==
    /\ script.name = "S3" /\ finished /\ script.n = INDENT
    /\ Len(script.words) = 3 /\ OneLineWidth(script.words) = MARGIN + 1
    /\ out = Join(script.words, <<"\n">> \o Rep(" ", INDENT))

\* The Breaks printed so far as newlines, and those printed as whitespace.
NewlineEvents == { e \in events : e.at = "print_break" /\ e.broke }
BlankEvents == { e \in events : e.at = "print_break" /\ ~e.broke }

(* C15: on a fresh engine, ibox(4), word(a), space(), word(b), space(),     *)
(* word(c), end(), eof with |a|+1+|b| <= MARGIN, |a|+|b|+|c|+2 > MARGIN and *)
(* |c| <= MARGIN-4 gives a, one space, b, newline, 4 spaces, c: the first   *)
(* Break is emitted as a space and only the second as a newline.            *)
C15_InconsistentLocalChoice ==
    script.name = "S4" =>
        LET a == script.words[1]
            b == script.words[2]
            c == script.words[3]
        IN /\ panic = "none"
           /\ finished =>
                 /\ out = a \o <<" ">> \o b \o <<"\n">> \o Rep(" ", INDENT) \o c
                 /\ \A e \in BlankEvents : e.pos = Len(a)
                 /\ \A e \in NewlineEvents : e.pos = Len(a) + 1 + Len(b)
                 /\ Cardinality(BlankEvents) = 1
                 /\ Cardinality(NewlineEvents) = 1

C15_Witness ==
    /\ script.name = "S4" /\ finished
    /\ Len(script.words[1]) + 1 + Len(script.words[2]) = MARGIN
    /\ Len(script.words[3]) = 1
    /\ Cardinality(BlankEvents) = 1 /\ Cardinality(NewlineEvents) = 1

(* C16: on a fresh engine, cbox(4), word(s) with |s| > MARGIN, space(),     *)
(* word("b"), end(), eof: the Begin is forced to SIZE_INFINITY and printed  *)
(* Broken with indent 4; the Break, scanned after scan_stack and buf were   *)
(* drained, is emitted as a newline followed by 4 spaces; the output is s,  *)
(* newline, 4 spaces, b; after the final end() indent is back to 0.         *)
C16_ForcedBreak ==
    script.name = "S2" =>
        /\ panic = "none"
        /\ calls >= 2 =>
              \E e \in events : /\ e.at = "print_begin" /\ e.broke
                                /\ e.size = SIZE_INFINITY /\ e.ind = INDENT
        /\ calls = 2 =>
              /\ scan_stack = <<>> /\ ring_is_empty(buf)
              /\ print_stack = <<Broken(0, "Consistent")>> /\ indent = INDENT
              /\ out = script.words[1]
        /\ calls = 3 =>
              /\ ring_len(buf) = 1 /\ ring_first(buf).token = space_break
              /\ scan_stack = <<ring_index_of_first(buf)>>
        /\ calls >= 4 =>
              /\ Cardinality(NewlineEvents) = 1 /\ BlankEvents = {}
              /\ \A e \in NewlineEvents : e.ind = INDENT /\ e.pos = Len(script.words[1])
        /\ calls = 5 => indent = 0 /\ print_stack = <<>>
        /\ finished =>
              /\ out = script.words[1] \o <<"\n">> \o Rep(" ", INDENT) \o <<"b">>
              /\ indent = 0

C16_Witness ==
    /\ script.name = "S2" /\ finished /\ Len(script.words[1]) = 90
    /\ Len(out) = 90 + 1 + INDENT + 1 /\ indent = 0
    /\ \E e \in NewlineEvents : e.size = SIZE_INFINITY

\* The positions of out that hold a comma; no scanned text of Texts has one.
CommaPositions == { i \in 1..Len(out) : out[i] = "," }

(* C17: a Break with trailing_comma = true contributes a ',' to out if and  *)
(* only if it is emitted as a newline, and then the ',' stands directly     *)
(* after the preceding content and directly before the newline; emitted as  *)
(* whitespace (the block fits) it adds no character.                        *)
C17_TrailingComma ==
    /\ CommaPositions = { e.pos + 1 : e \in { n \in NewlineEvents : n.comma } }
    /\ \A i \in CommaPositions :
          /\ i < Len(out) /\ out[i + 1] = "\n"
          /\ i > 1 => out[i - 1] # " "
    /\ \A e \in BlankEvents :
          e.comma => /\ e.space = e.before
                     /\ e.pos + 1 \in CommaPositions =>
                           \E n \in NewlineEvents : n.comma /\ n.pos = e.pos

C17_Witness ==
    /\ finished
    /\ \E e \in NewlineEvents : e.comma /\ e.pos > 0 /\ out[e.pos] = "x"
    /\ \E e \in BlankEvents : e.comma

\* A step that calls offset().
OffsetStep == last_call' = "offset" /\ calls' = calls + 1

\* What offset() never touches.
OffsetFrame ==
    UNCHANGED <<out, space, left_total, right_total, scan_stack, print_stack,
                indent, pending_indentation>>

(* C18: offset(delta) called directly after scan_break finds that Break as  *)
(* the last entry of buf and adds delta to that Break's offset, changing    *)
(* no other entry, counter or stack; with a Begin last it changes nothing;  *)
(* with a String or an End last, or buf empty, it panics.                   *)
C18_Offset ==
    [][OffsetStep =>
          /\ OffsetFrame
          /\ last_call = "scan_break" =>
                /\ ~ring_is_empty(buf)
                /\ ring_last(buf).token.kind = "Break"
                /\ scan_stack # <<>>
                /\ Last(scan_stack) = ring_push_index(buf) - 1
          /\ IF ring_is_empty(buf) THEN panic' # "none" /\ buf' = buf
             ELSE IF ring_last(buf).token.kind = "Break"
             THEN /\ panic' = "none"
                  /\ \E delta \in Deltas :
                        buf' = [buf EXCEPT !.data[Len(buf.data)].token.offset =
                                              @ + delta]
             ELSE IF ring_last(buf).token.kind = "Begin"
             THEN panic' = "none" /\ buf' = buf
             ELSE panic' # "none" /\ buf' = buf]_vars

C18_Witness ==
    /\ last_call = "offset" /\ panic = "offset: unreachable"
    /\ \E i \in 1..Len(buf.data) :
          buf.data[i].token.kind = "Break" /\ buf.data[i].token.offset = -INDENT

\* A step that calls scan_end with no block open, scanned or printed.
UnbalancedEndStep ==
    /\ last_call' = "scan_end" /\ calls' = calls + 1
    /\ scan_stack = <<>> /\ print_stack = <<>>

\* The Begins and Breaks printed so far.
PrintEvents == { e \in events : e.at \in {"print_begin", "print_break"} }

\* The events in which indent + offset was applied and was negative.
NegativeEvents == { e \in PrintEvents : e.broke /\ e.ind < 0 }

(* C20: an End with no open block (scan_stack and print_stack empty) and a  *)
(* Begin or Break whose offset makes indent + offset negative when it is    *)
(* applied panic at the point they are printed; indent and                  *)
(* pending_indentation are never set from a negative value.                 *)
C20_ErrorsReported ==
    [][/\ UnbalancedEndStep =>
             /\ panic' = "print_end: pop of an empty print_stack"
             /\ UNCHANGED <<out, space, buf, left_total, right_total, scan_stack,
                            print_stack, indent, pending_indentation>>
       /\ indent' >= 0 /\ pending_indentation' >= 0
       /\ NegativeEvents' # {} =>
             /\ panic' \in {"print_begin: indent + offset < 0",
                            "print_break: indent + offset < 0"}
             /\ Cardinality(NegativeEvents') = 1
             /\ \A e \in NegativeEvents', later \in PrintEvents' : later.pos <= e.pos
       /\ panic' = "none" =>
             \A e \in PrintEvents' \ PrintEvents : e.broke => e.ind >= 0]_vars

C20_Witness ==
    /\ panic = "print_break: indent + offset < 0"
    /\ \E e \in NegativeEvents : e.at = "print_break" /\ e.ind = -INDENT
    /\ out # <<>> /\ Last(out) = "\n"
    /\ indent = 0 /\ pending_indentation = 0

\* The newline that is the last thing the printer did: out ends with it and
\* no Break has been printed as whitespace since.
LastNewline ==
    { e \in NewlineEvents :
        /\ e.pos + (IF e.comma THEN 2 ELSE 1) = Len(out)
        /\ \A b \in BlankEvents : b.pos # Len(out) }

(* C19: right after a Break is emitted as a newline with indent + offset    *)
(* >= 0, space = max(MARGIN - (indent + offset), MIN_SPACE), hence          *)
(* MIN_SPACE <= space <= MARGIN at every nesting depth; nesting deeper than *)
(* (MARGIN - MIN_SPACE) / INDENT blocks makes no operation panic or loop:   *)
(* the driver reaches eof and out is not empty.                             *)
C19_MinSpaceFloor ==
    /\ \A e \in NewlineEvents :
          e.ind >= 0 => /\ e.space = Max(MARGIN - e.ind, MIN_SPACE)
                        /\ MIN_SPACE <= e.space /\ e.space <= MARGIN
    /\ \A e \in LastNewline :
          e.ind >= 0 => /\ space = Max(MARGIN - e.ind, MIN_SPACE)
                        /\ pending_indentation = e.ind
    /\ script.name = "nest" =>
          /\ panic = "none"
          /\ calls = Len(script.calls) => open = <<>>
          /\ finished => /\ out # <<>>
                          /\ scan_stack = <<>> /\ print_stack = <<>>
                          /\ ring_is_empty(buf)

C19_Witness ==
    /\ script.name = "nest" /\ finished /\ out # <<>>
    /\ script.n * INDENT > MARGIN - MIN_SPACE
    /\ \E e \in NewlineEvents :
          e.ind > MARGIN - MIN_SPACE /\ e.space = MIN_SPACE /\ e.depth = script.n

----------------------------------------------------------------------------
ScanEndStep == last_call' = "scan_end" /\ calls' = calls + 1

\* buf ends with a Break that does not close an empty block.
LastBreakOfBlock ==
    /\ scan_stack # <<>>
    /\ ring_len(buf) >= 1 /\ ring_last(buf).token.kind = "Break"
    /\ ~(ring_len(buf) >= 2 /\ ring_second_last(buf).token.kind = "Begin")

(* C21: scan_end called with scan_stack non-empty, a last entry of buf that *)
(* is a Break with if_nonempty and a second-last entry that is not a Begin  *)
(* removes exactly that Break from buf and its index from the back of       *)
(* scan_stack, decreases right_total by its blank_space, leaves left_total  *)
(* unchanged, then appends End with size -1 and pushes its index; a last    *)
(* Break without if_nonempty is kept and End is appended after it.          *)
C21_IfNonemptySuppressed ==
    [][ScanEndStep /\ LastBreakOfBlock =>
          IF ring_last(buf).token.if_nonempty
          THEN /\ Last(scan_stack) = ring_push_index(buf) - 1
               /\ buf' = ring_push(ring_pop_last(buf), BufEntry(EndToken, -1))
               /\ scan_stack' = Append(Front(scan_stack),
                                       ring_push_index(ring_pop_last(buf)))
               /\ right_total' = right_total - ring_last(buf).token.blank_space
               /\ left_total' = left_total
          ELSE /\ buf' = ring_push(buf, BufEntry(EndToken, -1))
               /\ scan_stack' = Append(scan_stack, ring_push_index(buf))
               /\ right_total' = right_total
               /\ left_total' = left_total]_vars

C21_Witness ==
    /\ last_call = "scan_end" /\ calls = 4 /\ elided = 1
    /\ ring_len(buf) = 3
    /\ ring_first(buf).token.kind = "Begin"
    /\ ring_second_last(buf).token.kind = "String"
    /\ ring_last(buf) = BufEntry(EndToken, -1)
    /\ Last(scan_stack) = ring_push_index(buf) - 1
    /\ right_total - left_total = Len(ring_second_last(buf).token.text)

----------------------------------------------------------------------------
\* The Begins and Breaks printed with the size check_stream forces.
ForcedEvents ==
    { e \in events : e.at \in {"print_begin", "print_break"}
                     /\ e.size = SIZE_INFINITY }

(* C22: every entry whose size check_stream forces to SIZE_INFINITY results *)
(* in a break: a forced Begin is printed as a Broken frame, a forced Break  *)
(* is emitted as a newline and is never printed while the innermost         *)
(* PrintFrame is Fits, and SIZE_INFINITY > space in every reachable state.  *)
C22_ForcedAlwaysBreaks ==
    /\ SIZE_INFINITY > space
    /\ \A e \in ForcedEvents :
          /\ e.size > e.before
          /\ e.broke
          /\ e.at = "print_break" => e.frame # "Fits"

C22_Witness ==
    /\ \E e \in ForcedEvents : e.at = "print_begin" /\ e.broke
    /\ \E e \in ForcedEvents : e.at = "print_break" /\ e.broke /\ e.depth >= 1

----------------------------------------------------------------------------
\* The sizes check_stack resolved for Begins and Breaks.
ResolvedEvents == { e \in events : e.at = "check_stack" }

(* C23: when check_stack resolves a Begin or a Break (entry.size +=         *)
(* right_total), the resulting size is not negative and equals the sum of   *)
(* the logical widths of the entries from that entry to the back of buf at  *)
(* that moment; Breaks removed by the scan_end peepholes are no longer in   *)
(* buf and are not counted.                                                 *)
C23_ResolvedSizeIsSpan ==
    \A e \in ResolvedEvents :
        /\ e.kind \in {"Begin", "Break"}
        /\ e.size >= 0
        /\ e.size = e.span

\* A Begin resolved to the 40 columns of its text after scan_end removed the
\* if_nonempty Break that followed the text.
C23_Witness ==
    /\ elided = 1 /\ finished /\ out = Rep("x", 40)
    /\ \E e \in ResolvedEvents : e.kind = "Begin" /\ e.size = 40 /\ e.depth = 1

----------------------------------------------------------------------------
\* The kinds of the entries scan_stack points to, front to back.
ScanKinds(b, stack) == [i \in 1..Len(stack) |-> ring_get(b, stack[i]).token.kind]

\* The number of Breaks of each nesting level that is still open after the
\* kinds, outermost first: a Begin opens a level, an End closes the innermost
\* one, or the only one when its Begin has left scan_stack.
RECURSIVE OpenLevels(_, _)
OpenLevels(kinds, counts) ==
    IF kinds = <<>> THEN counts
    ELSE OpenLevels(Tail(kinds),
           CASE Head(kinds) = "Begin" -> Append(counts, 0)
             [] Head(kinds) = "End" ->
                  IF Len(counts) = 1 THEN <<0>> ELSE Front(counts)
             [] Head(kinds) = "Break" ->
                  [counts EXCEPT ![Len(counts)] = @ + 1]
             [] OTHER -> counts)

\* The number of Ends less the number of Begins after position i of kinds.
RECURSIVE DepthAfter(_, _)
DepthAfter(kinds, i) ==
    IF i >= Len(kinds) THEN 0
    ELSE DepthAfter(kinds, i + 1)
         + (CASE kinds[i + 1] = "End" -> 1
              [] kinds[i + 1] = "Begin" -> -1
              [] OTHER -> 0)

ScanBreakStep == last_call' = "scan_break" /\ calls' = calls + 1

\* What check_stack(0) left of scan_stack, and the kinds of what it popped.
KeptByCheckStack == Front(scan_stack')
PoppedByCheckStack ==
    SubSeq(ScanKinds(buf, scan_stack), Len(KeptByCheckStack) + 1, Len(scan_stack))

(* C24: check_stack(0) called from scan_break pops scan_stack from the back *)
(* only, never pops a Begin it meets at depth 0 (the Begin of the block     *)
(* still open) and pops nothing below the first Break it meets at depth 0;  *)
(* in every reachable state scan_stack holds at most one unresolved Break   *)
(* per nesting level that is still open.                                    *)
C24_OneBreakPerLevel ==
    /\ [](\A i \in 1..Len(OpenLevels(ScanKinds(buf, scan_stack), <<0>>)) :
             OpenLevels(ScanKinds(buf, scan_stack), <<0>>)[i] <= 1)
    /\ [][ScanBreakStep /\ scan_stack # <<>> =>
            /\ Len(KeptByCheckStack) <= Len(scan_stack)
            /\ KeptByCheckStack = SubSeq(scan_stack, 1, Len(KeptByCheckStack))
            /\ \A i \in 1..Len(PoppedByCheckStack) :
                  /\ PoppedByCheckStack[i] = "Begin" =>
                        DepthAfter(PoppedByCheckStack, i) >= 1
                  /\ PoppedByCheckStack[i] = "Break"
                     /\ DepthAfter(PoppedByCheckStack, i) = 0 => i = 1
            /\ \A i \in 1..Len(scan_stack) :
                  i > Len(KeptByCheckStack) => ring_get(buf', scan_stack[i]).size >= 0
          ]_vars

\* scan_stack holds the Begin of an open block, a closed block inside it and
\* one Break of the open block above them.
C24_Witness ==
    /\ last_call = "scan_break" /\ panic = "none"
    /\ Len(scan_stack) = 2
    /\ ScanKinds(buf, scan_stack) = <<"Begin", "Break">>
    /\ \E i \in 1..ring_len(buf) : buf.data[i].token.kind = "End"
    /\ OpenLevels(ScanKinds(buf, scan_stack), <<0>>) = <<0, 1>>

----------------------------------------------------------------------------
\* The sum of the Begin offsets of the Broken frames among the first n frames
\* of print_stack.
RECURSIVE BrokenOffsets(_)
BrokenOffsets(n) ==
    IF n = 0 THEN 0
    ELSE BrokenOffsets(n - 1)
         + (IF print_stack[n].kind = "Broken" THEN marks[n].offset ELSE 0)

(* C25: after print_end pops the frame of a block, indent equals the value  *)
(* it had immediately before that block's Begin was printed, for any        *)
(* nesting of Fits and Broken blocks; in every reachable state indent       *)
(* equals the sum of the Begin offsets of the Broken frames on print_stack. *)
C25_IndentRestored ==
    /\ \A c \in closed : c.indent = c.mark.indent
    /\ indent = BrokenOffsets(Len(print_stack))

\* A Fits block was closed inside a Broken block, where indent was INDENT, and
\* then the Broken block was closed and indent is 0 again.
C25_Witness ==
    /\ finished /\ indent = 0 /\ print_stack = <<>>
    /\ \E c \in closed : c.kind = "Fits" /\ c.indent = INDENT
    /\ \E c \in closed :
          c.kind = "Broken" /\ c.mark.offset = INDENT /\ c.indent = 0

----------------------------------------------------------------------------
ScanStringStep == last_call' = "scan_string" /\ calls' = calls + 1

(* C26: scan_string called with scan_stack empty prints immediately: it     *)
(* appends pending_indentation spaces and then the text to out, sets        *)
(* pending_indentation to 0, decreases space by the length of the text, and *)
(* leaves buf, scan_stack, print_stack, indent, left_total and right_total  *)
(* unchanged.                                                               *)
C26_ImmediateString ==
    [][ScanStringStep /\ scan_stack = <<>> =>
          /\ \E string \in Texts \cup SpacedTexts :
                /\ out' = out \o Rep(" ", pending_indentation) \o string
                /\ space' = space - Len(string)
          /\ pending_indentation' = 0
          /\ UNCHANGED <<buf, scan_stack, print_stack, indent,
                         left_total, right_total>>]_vars

\* Two texts scanned and printed with nothing buffered.
C26_Witness ==
    /\ last_call = "scan_string" /\ calls = 2
    /\ scan_stack = <<>> /\ ring_is_empty(buf)
    /\ out = Rep("x", 40) \o <<":", " ">>
    /\ space = MARGIN - 42 /\ pending_indentation = 0

----------------------------------------------------------------------------
\* The iterations of the loop of check_stream.
IterationEvents == { e \in events : e.at = "check_stream" }

(* C27: check_stream terminates: each iteration of its loop removes at      *)
(* least one entry from buf, the front entry being already resolved or the  *)
(* front of scan_stack and then forced; when it returns, buf is empty or    *)
(* right_total - left_total <= space; advance_left leaves buf empty or with *)
(* an unresolved (size < 0) first entry.                                    *)
C27_CheckStreamTerminates ==
    /\ panic # "check_stream: does not terminate"
    /\ \A e \in IterationEvents :
          /\ e.removed >= 1
          /\ e.resolved \/ e.forced
          /\ e.rest \in {"empty", "unresolved"}
    /\ last_call = "scan_string" =>
          ring_is_empty(buf) \/ right_total - left_total <= space
    /\ last_call = "eof" =>
          ring_is_empty(buf) \/ ring_first(buf).size < 0

\* check_stream returned after two iterations, one on a resolved front entry
\* and one that forced it, and left entries in buf.
C27_Witness ==
    /\ last_call = "scan_string" /\ ~ring_is_empty(buf)
    /\ right_total - left_total <= space
    /\ \E e \in IterationEvents : e.forced /\ ~e.resolved /\ e.rest = "unresolved"
    /\ \E e \in IterationEvents : e.forced /\ e.removed >= 2

----------------------------------------------------------------------------
\* The Breaks printed so far.
BreakEvents == { e \in events : e.at = "print_break" }

(* C28: a Break printed while print_stack is empty is treated as inside     *)
(* Broken(0, Inconsistent): it becomes a newline iff its size > space and   *)
(* otherwise blank_space columns of whitespace; in a Fits frame a Break is  *)
(* always whitespace and in a Broken Consistent frame always a newline,     *)
(* whatever its size.                                                       *)
C28_BreakByFrame ==
    \A e \in BreakEvents :
        /\ e.depth = 0 =>
              /\ e.frame = "Broken" /\ e.breaks = "Inconsistent"
              /\ e.broke <=> e.size > e.before
        /\ e.frame = "Fits" => ~e.broke
        /\ e.frame = "Broken" /\ e.breaks = "Consistent" => e.broke
        /\ ~e.broke => e.space = e.before - e.blank
        /\ e.broke => e.space = Max(MARGIN - e.ind, MIN_SPACE)

\* Outside every block one Break became a space and another a newline.
C28_Witness ==
    /\ \E e \in BreakEvents : e.depth = 0 /\ ~e.broke /\ e.blank = 1
    /\ \E e \in BreakEvents : e.depth = 0 /\ e.broke /\ e.size > e.before

----------------------------------------------------------------------------
\* The absolute indices of the entries of buf, and those on scan_stack.
BufIndices == { buf.offset + i - 1 : i \in 1..ring_len(buf) }
ScanIndices == { scan_stack[i] : i \in 1..Len(scan_stack) }

(* C29: in every reachable state an entry of buf has negative size iff its  *)
(* index is on scan_stack: a Begin or Break on scan_stack still has the     *)
(* size -right_total < 0 it was appended with (right_total >= 1 whenever    *)
(* buf is not empty), an End has -1, a String has size >= 0 and is never on *)
(* scan_stack, and every entry check_stack or check_stream popped from      *)
(* scan_stack has a size >= 0.                                              *)
C29_NegativeIffOnScanStack ==
    /\ ~ring_is_empty(buf) => right_total >= 1
    /\ ScanIndices \subseteq BufIndices
    /\ \A index \in BufIndices :
          LET entry == ring_get(buf, index) IN
          /\ entry.size < 0 <=> index \in ScanIndices
          /\ entry.token.kind = "String" =>
                entry.size = Len(entry.token.text) /\ index \notin ScanIndices
          /\ entry.token.kind = "End" /\ index \in ScanIndices => entry.size = -1
          /\ entry.token.kind \in {"Begin", "Break"} /\ index \in ScanIndices =>
                /\ entry.size <= -1
                /\ -entry.size <= right_total
    /\ \A e \in ResolvedEvents : e.size >= 0

\* buf holds entries on scan_stack with size -1 and below, a String, and an
\* entry check_stack resolved.
C29_Witness ==
    /\ \E index \in ScanIndices : ring_get(buf, index).size < -1
    /\ \E index \in ScanIndices : ring_get(buf, index) = BufEntry(EndToken, -1)
    /\ \E index \in BufIndices :
          /\ ring_get(buf, index).token.kind \in {"Begin", "Break"}
          /\ index \notin ScanIndices
    /\ \E index \in BufIndices : ring_get(buf, index).token.kind = "String"

----------------------------------------------------------------------------
\* The arguments of args that are of group g, in their order in args.
RECURSIVE OfGroup(_, _)
OfGroup(args, g) ==
    IF args = <<>> THEN <<>>
    ELSE (IF group(Head(args)) = g THEN <<Head(args)>> ELSE <<>>)
         \o OfGroup(Tail(args), g)

\* Lifetimes, then types and consts, then bindings and constraints.
Grouped(args) == OfGroup(args, 1) \o OfGroup(args, 2) \o OfGroup(args, 3)

\* An argument on one line.
Rendered(arg) ==
    CASE arg.kind \in {"Lifetime", "Type", "Const"} -> arg.text
      [] arg.kind = "ConstExpr" -> <<"{">> \o arg.text \o <<"}">>
      [] arg.kind = "Binding" -> arg.text \o <<" ", "=", " ", "T">>
      [] arg.kind = "Constraint" -> arg.text \o <<":", " ", "B", " ", "+", " ", "B">>

\* The argument list on one line, and with one argument per line.
RECURSIVE OneLine(_)
OneLine(args) ==
    IF Len(args) = 1 THEN Rendered(args[1])
    ELSE Rendered(args[1]) \o <<",", " ">> \o OneLine(Tail(args))

RECURSIVE OnePerLine(_)
OnePerLine(args) ==
    IF args = <<>> THEN <<>>
    ELSE Rep(" ", INDENT) \o Rendered(args[1]) \o <<",", "\n">>
         \o OnePerLine(Tail(args))

Colon2 == IF script.n = 2 THEN <<":", ":">> ELSE <<>>

\* The texts of the arguments among the Strings a script scans, in order.
RECURSIVE ScannedArgs(_, _)
ScannedArgs(cs, args) ==
    IF cs = <<>> THEN <<>>
    ELSE (IF Head(cs).op = "scan_string"
             /\ \E i \in 1..Len(args) : args[i].text = Head(cs).arg
          THEN <<Head(cs).arg>> ELSE <<>>)
         \o ScannedArgs(Tail(cs), args)

(* C30: angle_bracketed_generic_arguments prints every generic argument     *)
(* exactly once, all lifetimes first, then all types and consts, then all   *)
(* bindings and constraints, whatever their order in args, keeping the      *)
(* original relative order inside each group; with an empty args list it    *)
(* emits no token at all.                                                   *)
C30_GenericArgumentOrder ==
    script.name = "generic" =>
        LET args == script.args
            line == Colon2 \o <<"<">> \o OneLine(Grouped(args)) \o <<">">>
        IN /\ panic = "none"
           /\ args = <<>> => script.calls = <<>> /\ out = <<>> /\ events = {}
           /\ ScannedArgs(script.calls, args)
                 = [i \in 1..Len(args) |-> Grouped(args)[i].text]
           /\ finished /\ args # <<>> =>
                 out = IF Len(line) <= MARGIN THEN line
                       ELSE Colon2 \o <<"<", "\n">> \o OnePerLine(Grouped(args))
                            \o <<">">>

\* A binding, a type and a lifetime, in this order in args, were printed as
\* lifetime, type, binding, one per line.
C30_Witness ==
    /\ script.name = "generic" /\ finished
    /\ Len(script.args) = 3
    /\ script.args[1].kind = "Binding"
    /\ script.args[2].kind = "Type"
    /\ script.args[3].kind = "Lifetime"
    /\ Len(script.args[1].text) = 30
    /\ out = <<"<", "\n">> \o OnePerLine(<<script.args[3], script.args[2],
                                            script.args[1]>>) \o <<">">>

----------------------------------------------------------------------------
(* C33, as stated: scan_stack empty implies buf empty, and every entry left *)
(* in buf has an unresolved entry at or before it.                          *)
C33_Original ==
    /\ scan_stack = <<>> => ring_is_empty(buf)
    /\ \A index \in BufIndices :
          \E before \in BufIndices :
              before <= index /\ ring_get(buf, before).size < 0

(* C33, amended: at every boundary between public operations scan_stack     *)
(* empty implies buf empty: a buf that is not empty holds an unresolved     *)
(* entry, at or after which every entry scanned since still is, while       *)
(* entries check_stack resolved may wait in front of it; a rebase finds buf *)
(* already empty, and the direct-print paths of scan_string and scan_end    *)
(* are taken with buf empty.                                                *)
C33_ScanEmptyBufEmpty ==
    /\ scan_stack = <<>> => ring_is_empty(buf)
    /\ ~ring_is_empty(buf) =>
          \E index \in BufIndices : ring_get(buf, index).size < 0

\* A text was printed directly after everything buffered before it had been
\* printed.
C33_Witness ==
    /\ last_call = "scan_string" /\ scan_stack = <<>> /\ ring_is_empty(buf)
    /\ left_total > 1 /\ closed # {}
    /\ out # <<>> /\ Last(out) = "x"

----------------------------------------------------------------------------
\* The positions in cs of the Breaks scanned by trailing_comma(true).
CommaCalls(cs) ==
    { i \in 1..Len(cs) : cs[i].op = "scan_break" /\ cs[i].arg.trailing_comma }

\* The positions in cs of the calls of offset.
OffsetCalls(cs) == { i \in 1..Len(cs) : cs[i].op = "offset" }

SameCalls(a, b) ==
    /\ Len(a) = Len(b)
    /\ \A k \in 1..Len(a) : a[k].op = b[k].op /\ a[k].arg = b[k].arg

\* The Breaks of trailing_comma(true) printed as a newline.
CommaEvents == { e \in events : e.at = "print_break" /\ e.comma /\ e.broke }

(* C31: in angle_bracketed_generic_arguments, for every non-empty args list *)
(* in any order, trailing_comma is called with is_last = true exactly once, *)
(* for the argument printed last (the highest-index argument of the highest *)
(* non-empty group); the token scanned just before offset(-INDENT) is that  *)
(* Break, offset never reaches its unreachable branch, and the Break's      *)
(* offset -INDENT is applied only inside a Broken block whose indent was    *)
(* raised by INDENT, so indent + offset is never negative.                  *)
C31_TrailingCommaIsLast ==
    /\ script.name \in {"generic", "nest"} =>
          \A e \in CommaEvents :
              /\ e.frame = "Broken" /\ e.breaks = "Consistent" /\ e.depth >= 1
              /\ e.ind = INDENT * (e.depth - 1)
    /\ script.name = "generic" /\ script.args # <<>> =>
        LET cs == script.calls
            args == script.args
            printed_last == Grouped(args)[Len(args)]
            shown == generic_argument(printed_last)
        IN /\ panic = "none"
           /\ args[last_of(args)] = printed_last
           /\ \A j \in 1..Len(args) :
                 /\ group(args[j]) <= group(printed_last)
                 /\ j > last_of(args) => group(args[j]) < group(printed_last)
           /\ Cardinality(CommaCalls(cs)) = 1
           /\ Cardinality(OffsetCalls(cs)) = 1
           /\ \A i \in CommaCalls(cs) :
                 /\ cs[i].arg = trailing_comma_last
                 /\ i + 1 \in OffsetCalls(cs) /\ cs[i + 1].arg = -INDENT
                 /\ i > Len(shown)
                 /\ SameCalls(SubSeq(cs, i - Len(shown), i - 1), shown)
           /\ \A e \in CommaEvents : e.depth = 1 /\ e.ind = 0
           /\ last_call = "offset" =>
                 /\ ~ring_is_empty(buf)
                 /\ ring_last(buf).token.kind = "Break"
                 /\ ring_last(buf).token.trailing_comma
                 /\ ring_last(buf).token.offset = -INDENT

\* Two bindings after a type: the second binding got trailing_comma(true), and
\* its Break was printed as a comma and a newline at indent 0.
C31_Witness ==
    /\ script.name = "generic" /\ finished
    /\ Len(script.args) = 3
    /\ script.args[1].kind = "Binding"
    /\ script.args[2].kind = "Type"
    /\ script.args[3].kind = "Binding"
    /\ last_of(script.args) = 3
    /\ CommaEvents # {}
    /\ Len(out) > MARGIN

----------------------------------------------------------------------------
\* s without the characters of drop.
Without(s, drop) == SelectSeq(s, LAMBDA c : c \notin drop)

\* The texts of the Strings in data, concatenated in order.
RECURSIVE BufTexts(_)
BufTexts(data) ==
    IF data = <<>> THEN <<>>
    ELSE (IF Head(data).token.kind = "String" THEN Head(data).token.text ELSE <<>>)
         \o BufTexts(Tail(data))

(* C32: no token is lost, duplicated or reordered: for every balanced       *)
(* driver sequence out, with the spaces, newlines and trailing_comma commas *)
(* removed, followed by the texts still in buf, is the concatenation of the *)
(* scanned String texts in the order they were passed to scan_string,       *)
(* whether printed directly or through buf; the string returned by eof is   *)
(* that concatenation, and a rebase discards no unprinted entry. The texts  *)
(* scanned hold no comma and no newline; their own spaces are removed on    *)
(* both sides.                                                              *)
C32_NoTokenLost ==
    /\ Without(out, {" ", "\n", ","}) \o Without(BufTexts(buf.data), {" "})
          = Without(scanned, {" "})
    /\ finished => Without(out, {" ", "\n", ","}) = Without(scanned, {" "})
    /\ scan_stack = <<>> => ring_is_empty(buf)

\* eof returned 40 characters printed directly, then a colon and 40 more
\* characters that went through buf, the last ones on a new line.
C32_Witness ==
    /\ finished
    /\ scanned = Rep("x", 40) \o <<":", " ">> \o Rep("x", 40)
    /\ \E i \in 1..Len(out) : out[i] = "\n"
    /\ Without(out, {" ", "\n", ","}) = Rep("x", 40) \o <<":">> \o Rep("x", 40)

----------------------------------------------------------------------------
\* The number of characters of out after its last newline.
Newlines == { i \in 1..Len(out) : out[i] = "\n" }
Column ==
    IF Newlines = {} THEN Len(out)
    ELSE Len(out) - (CHOOSE i \in Newlines : \A j \in Newlines : j <= i)

\* No newline so far was emitted with indent + offset above MARGIN - MIN_SPACE.
FloorNeverEngaged == \A e \in NewlineEvents : e.ind <= MARGIN - MIN_SPACE

(* C34: space tracks the current column: as long as every newline so far    *)
(* was emitted with indent + offset <= MARGIN - MIN_SPACE, in every         *)
(* reachable state space = MARGIN - (number of characters of out after its  *)
(* last newline + pending_indentation), for texts of single-width           *)
(* characters.                                                              *)
C34_SpaceTracksColumn ==
    FloorNeverEngaged => space = MARGIN - (Column + pending_indentation)

\* After a newline at the largest indent that leaves the floor unengaged, a
\* word was printed.
C34_Witness ==
    /\ \E e \in NewlineEvents : e.ind = MARGIN - MIN_SPACE
    /\ FloorNeverEngaged
    /\ Column > MARGIN - MIN_SPACE
    /\ pending_indentation = 0
    /\ space = MARGIN - Column

----------------------------------------------------------------------------
\* The lengths of the lines of out, the unfinished last line included.
LineEnds == Newlines \cup {Len(out) + 1}
LineLengths ==
    { i - 1 - (IF \E j \in Newlines : j < i
               THEN CHOOSE j \in Newlines :
                       j < i /\ \A k \in Newlines : k < i => k <= j
               ELSE 0) : i \in LineEnds }

(* C35, as stated: for every balanced driver sequence in which all Breaks   *)
(* have if_nonempty = false and the Strings between two consecutive Breaks  *)
(* total at most MIN_SPACE characters, space >= 0 in every reachable state, *)
(* and no output line is longer than the width available to it.             *)
C35_Original ==
    /\ space >= 0
    /\ FloorNeverEngaged => \A n \in LineLengths : n <= MARGIN


(* C35, amended: for every balanced driver sequence in which all Breaks     *)
(* have if_nonempty = false, no Break is removed by scan_end's empty-block  *)
(* peephole and the Strings between two consecutive Breaks (and before the  *)
(* first and after the last Break) total at most MIN_SPACE characters,      *)
(* space >= 0 holds in every reachable state; an output line is longer than *)
(* the width available to it only by the comma of a trailing_comma Break,   *)
(* which is written before the newline and not counted in space.            *)
C35_NoAvoidableOverflow ==
    elided = 0 =>
        /\ space >= 0
        /\ FloorNeverEngaged =>
              \A i \in LineEnds :
                  LET before == { j \in Newlines : j < i }
                      start == IF before = {} THEN 0
                               ELSE CHOOSE j \in before : \A k \in before : k <= j
                  IN i - 1 - start > MARGIN =>
                        /\ i - 1 - start = MARGIN + 1
                        /\ i <= Len(out)
                        /\ out[i - 1] = ","

\* Two texts of 39 characters and the space between them fill a line, and a
\* trailing_comma Break that had to break made it 80 characters long.
C35_Witness ==
    /\ elided = 0 /\ space >= 0 /\ finished
    /\ MARGIN + 1 \in LineLengths
    /\ \E e \in CommaEvents : e.before = 0 /\ e.pos = MARGIN


(* C37: Fits is hereditary: if a block's Begin is printed as Fits, every    *)
(* block nested inside it is printed as Fits, every Break inside it, at any *)
(* depth, is emitted as whitespace, no newline is written to out before its *)
(* matching End is printed, and space stays >= 0 until that End (space only *)
(* falls while no newline is written, so its value at the End is its least).*)
C37_FitsHereditary ==
    /\ \A i \in 1..Len(print_stack) : \A j \in i..Len(print_stack) :
          print_stack[i].kind = "Fits" => print_stack[j].kind = "Fits"
    /\ \A e \in PrintEvents :
          e.frame = "Fits" => ~e.broke /\ e.before >= 0 /\ e.space >= 0
    /\ \A f \in PrintedFrames :
          f.kind = "Fits" => f.mark.brk_nl = 0 /\ f.mark.any_nl = 0
    /\ \A c \in closed :
          c.kind = "Fits" => c.space >= 0 /\ c.space <= c.mark.space
    /\ (\E i \in 1..Len(print_stack) : print_stack[i].kind = "Fits")
          => space >= 0

\* A block was printed as Fits inside a block printed as Fits, a Break inside
\* it was printed as whitespace, and a Fits block used up some of the space
\* it was given.
C37_Witness ==
    /\ finished
    /\ \E e \in PrintEvents :
          e.at = "print_begin" /\ e.frame = "Fits" /\ ~e.broke
    /\ \E e \in PrintEvents :
          e.at = "print_break" /\ e.frame = "Fits" /\ e.depth >= 2 /\ ~e.broke
    /\ \E c \in closed :
          c.kind = "Fits" /\ c.mark.brk_sp >= 1 /\ c.space < c.mark.space


----------------------------------------------------------------------------
(* A driver whose block ends with a Break that scan_end suppresses *)

MaxSiblings == 2     \* words before the suppressed Break, in SpecSuppress

\* A space with if_nonempty = true.
space_if_nonempty == BreakToken(0, 1, FALSE, TRUE)

SuppressLens == { 1, 30, 40 }
TailTexts == { <<>>, <<"y">>, Rep("y", 20) }

\* begin, word(w1), space(), ..., word(wk), the Break with if_nonempty, end(),
\* and then a word outside the block unless tail is empty.
SuppressScript(begin, ws, tail) ==
    [name |-> "suppress", n |-> begin.offset, words |-> ws, args |-> <<>>,
     calls |-> <<Call("scan_begin", begin)>> \o Spaced(ws)
               \o <<Call("scan_break", space_if_nonempty), Call("scan_end", 0)>>
               \o (IF tail = <<>> THEN <<>> ELSE <<Call("scan_string", word(tail))>>)]

InitSuppress ==
    /\ InitPrinter
    /\ \E begin \in FacadeBegins, k \in 1..MaxSiblings, tail \in TailTexts :
          \E ws \in Words(SuppressLens, k) :
              script = SuppressScript(begin, ws, tail)

NextSuppress ==
    \/ Run_scan_begin
    \/ Run_scan_end
    \/ Run_scan_break
    \/ Run_scan_string
    \/ Run_eof

SpecSuppress == InitSuppress /\ [][NextSuppress]_vars

\* One call of the driver, and a sequence of calls, applied to a Printer.
ApplyCall(p, c) ==
    CASE c.op = "scan_begin" -> scan_begin(p, c.arg)
      [] c.op = "scan_end" -> scan_end(p)
      [] c.op = "scan_break" -> scan_break(p, c.arg)
      [] c.op = "scan_string" -> scan_string(p, c.arg)
      [] c.op = "offset" -> offset(p, c.arg)

RECURSIVE Replay(_, _)
Replay(p, cs) ==
    IF cs = <<>> THEN p ELSE Replay(ApplyCall(p, Head(cs)), Tail(cs))

\* scan_end called on p takes its if_nonempty branch (algorithm.rs:136-140).
Suppresses(p) ==
    /\ p.scan_stack # <<>>
    /\ ring_len(p.buf) >= 1
    /\ ring_last(p.buf).token.kind = "Break"
    /\ ~(ring_len(p.buf) >= 2 /\ ring_second_last(p.buf).token.kind = "Begin")
    /\ ring_last(p.buf).token.if_nonempty

\* The scan_break calls of cs whose Break a later scan_end suppresses, with
\* the offset calls made on that Break.
Suppressed(cs) ==
    LET breaks == { i \in 1..Len(cs) :
                      /\ cs[i].op = "scan_break"
                      /\ \E j \in (i + 1)..Len(cs) :
                            /\ cs[j].op = "scan_end"
                            /\ \A k \in (i + 1)..(j - 1) : cs[k].op = "offset"
                            /\ Suppresses(Replay(new, SubSeq(cs, 1, j - 1))) }
    IN breaks \cup { k \in 1..Len(cs) :
                       /\ cs[k].op = "offset"
                       /\ \E i \in breaks :
                             i < k /\ \A m \in (i + 1)..k : cs[m].op = "offset" }

\* cs without the calls at the positions in drop.
Keep(cs, drop) ==
    LET F[i \in 0..Len(cs)] ==
            IF i = 0 THEN <<>>
            ELSE IF i \in drop THEN F[i - 1] ELSE Append(F[i - 1], cs[i])
    IN F[Len(cs)]

(* C36: suppressing a final if_nonempty Break is equivalent to never        *)
(* scanning it: the output of eof is the same as for the call sequence      *)
(* without each Break that scan_end's if_nonempty peephole removes.         *)
C36_Original ==
    (finished /\ panic = "none") =>
        out = eof(Replay(new, Keep(script.calls, Suppressed(script.calls)))).out

====
